---------------------------- MODULE Spec2Model ----------------------------
(***************************************************************************)
(* Model of the pacm-v8 C++ shim: the process-wide engine initializer      *)
(* (std::call_once), and one context of one isolate with its script cache, *)
(* its native callback registry and its global namespace.                  *)
(***************************************************************************)
EXTENDS Integers, Sequences, FiniteSets, TLC

(***************************************************************************)
(* Bounds of the model.                                                    *)
(***************************************************************************)
\* calls of shim_v8_initialize each thread makes
MaxCalls == 2

\* threads that call shim_v8_initialize
Threads == {"t1", "t2", "t3"}

\* calls of shim_context_register_host_function on the context
MaxRegisters == 3

\* calls of shim_context_set_global_string / _number on the context
MaxSets == 1

\* calls of shim_compile_script (script handles created)
MaxScripts == 2

\* function ids the host passes
FunctionIds == {7, 8}

\* isolate handles: the context's isolate and one other
Isolates == {1, 2}

\* the isolate shim_create_context was given
ContextIsolate == 1

VARIABLES
    g_v8_once,      \* std::once_flag: "fresh" | "active" | "done"
    g_platform,     \* "null" | "set"
    pc,             \* thread -> "idle" | "running" | "waiting"
    calls,          \* thread -> calls of shim_v8_initialize started
    lastCall,       \* thread -> record of the thread's current / last call
    setupRuns,      \* executions of the call_once body started
    setupOk,        \* executions of the call_once body that returned normally
    setupDone,      \* executions of the call_once body that ended (either way)
    firstResult     \* what the first execution that ended made its call return (-1: none yet)

initVars == <<g_v8_once, g_platform, pc, calls, lastCall, setupRuns, setupOk, setupDone,
             firstResult>>

VARIABLES
    ctx,              \* the ContextWrapper: "live" | "disposed"
    cache,            \* ContextWrapper::cache: the keys (source texts) it holds
    native_callbacks, \* ContextWrapper::native_callbacks: entries <<name, ptr>>
    data,             \* heap of NativeCallbackData: ptr -> [function_id, live, name]
    ns,               \* the context's global object: location -> value
    scripts,          \* ScriptWrappers created: handle -> [cache_key, live, isolate]
    dropCount,        \* function id -> calls of pacm_v8__host_function_drop
    okRegs,           \* function id -> register calls that returned 1
    passedIds,        \* function ids passed to register calls
    replaced,         \* <<name, id>>: id was registered at name and then replaced there
    evaled,           \* sources shim_context_eval was called with
    ranOk,            \* cache keys of the scripts shim_script_run ran with success
    nregs,            \* register calls made
    nsets,            \* set_global calls made
    lastOp            \* what the last call on the context did

ctxVars == <<ctx, cache, native_callbacks, data, ns, scripts, dropCount, okRegs,
            passedIds, replaced, evaled, ranOk, nregs, nsets, lastOp>>

VARIABLES
    isolates          \* IsolateWrappers: handle -> "none" | "live" | "disposed"

isoVars == <<isolates>>

VARIABLES
    pending           \* the shim_context_eval whose script is inside a host handler

reVars == <<pending>>

vars == <<initVars, ctxVars, isoVars, reVars>>

(***************************************************************************)
(* shim_v8_initialize                                                      *)
(***************************************************************************)
\* what one execution of the call_once body can do: ICU load fails (the
\* lambda throws before the platform is created), platform bring-up throws,
\* or the body returns normally
SetupOutcomes == {"icu_failed", "platform_threw", "ok"}

NoCall == [state |-> "none", ret |-> -1, ran |-> FALSE, sawDone |-> FALSE, wave |-> FALSE]

\* a call_once that leaves its flag unset whatever the body did
OnceNeverSet(outcome) == "fresh"

\* std::call_once: a body that returns normally sets the flag; a body that
\* throws leaves the flag unset, so that the next call_once runs a body again
OnceAfterBody(outcome) == IF outcome = "ok" THEN "done" ELSE "fresh"

\* the catch (...) of shim_v8_initialize: 0 when the body threw, 1 otherwise
InitializeResult(outcome) == IF outcome = "ok" THEN 1 ELSE 0

\* g_platform is assigned after the ICU check and before InitializePlatform
PlatformAfterBody(outcome) == IF outcome = "icu_failed" THEN g_platform ELSE "set"

\* a call that finds the flag set: call_once returns at once, the call returns 1
InitializeDone(t) ==
    /\ pc[t] = "idle"
    /\ calls[t] < MaxCalls
    /\ g_v8_once = "done"
    /\ calls' = [calls EXCEPT ![t] = @ + 1]
    /\ lastCall' = [lastCall EXCEPT ![t] =
                       [state |-> "returned", ret |-> 1, ran |-> FALSE,
                        sawDone |-> TRUE, wave |-> (setupDone = 0)]]
    /\ UNCHANGED <<g_v8_once, g_platform, pc, setupRuns, setupOk, setupDone, firstResult>>
    /\ UNCHANGED <<ctxVars, isoVars, reVars>>

\* a call that finds the flag unset and no execution active: it runs the body
InitializeBegin(t) ==
    /\ pc[t] = "idle"
    /\ calls[t] < MaxCalls
    /\ g_v8_once = "fresh"
    /\ calls' = [calls EXCEPT ![t] = @ + 1]
    /\ g_v8_once' = "active"
    /\ pc' = [pc EXCEPT ![t] = "running"]
    /\ setupRuns' = setupRuns + 1
    /\ lastCall' = [lastCall EXCEPT ![t] =
                       [state |-> "in", ret |-> -1, ran |-> TRUE,
                        sawDone |-> FALSE, wave |-> (setupDone = 0)]]
    /\ UNCHANGED <<g_platform, setupOk, setupDone, firstResult>>
    /\ UNCHANGED <<ctxVars, isoVars, reVars>>

\* a call that finds an execution active: call_once blocks the caller
InitializeBlock(t) ==
    /\ pc[t] = "idle"
    /\ calls[t] < MaxCalls
    /\ g_v8_once = "active"
    /\ calls' = [calls EXCEPT ![t] = @ + 1]
    /\ pc' = [pc EXCEPT ![t] = "waiting"]
    /\ lastCall' = [lastCall EXCEPT ![t] =
                       [state |-> "in", ret |-> -1, ran |-> FALSE,
                        sawDone |-> FALSE, wave |-> (setupDone = 0)]]
    /\ UNCHANGED <<g_v8_once, g_platform, setupRuns, setupOk, setupDone, firstResult>>
    /\ UNCHANGED <<ctxVars, isoVars, reVars>>

\* the body ends: normally (the flag is set, the call returns 1) or by a
\* throw (the flag stays unset, the catch returns 0)
SetupEnd(t) ==
    /\ pc[t] = "running"
    /\ \E outcome \in SetupOutcomes :
          /\ g_v8_once' = OnceAfterBody(outcome)
          /\ g_platform' = PlatformAfterBody(outcome)
          /\ setupOk' = setupOk + InitializeResult(outcome)
          /\ lastCall' = [lastCall EXCEPT ![t].state = "returned",
                                          ![t].ret = InitializeResult(outcome)]
          /\ firstResult' = IF setupDone = 0 THEN InitializeResult(outcome) ELSE firstResult
    /\ setupDone' = setupDone + 1
    /\ pc' = [pc EXCEPT ![t] = "idle"]
    /\ UNCHANGED <<calls, setupRuns>>
    /\ UNCHANGED <<ctxVars, isoVars, reVars>>

\* a call_once that lets a blocked caller through while the body runs
MayWakeAnytime(flag) == TRUE

\* a blocked caller may leave call_once once no execution is active
MayWake(flag) == flag # "active"

\* a blocked caller wakes: the flag is set (it returns 1 without running the
\* body), or the active execution threw and this caller runs the body itself
Wake(t) ==
    /\ pc[t] = "waiting"
    /\ MayWake(g_v8_once)
    /\ IF g_v8_once = "fresh"
       THEN /\ g_v8_once' = "active"
            /\ pc' = [pc EXCEPT ![t] = "running"]
            /\ setupRuns' = setupRuns + 1
            /\ lastCall' = [lastCall EXCEPT ![t].ran = TRUE]
       ELSE /\ pc' = [pc EXCEPT ![t] = "idle"]
            /\ lastCall' = [lastCall EXCEPT ![t].state = "returned", ![t].ret = 1]
            /\ UNCHANGED <<g_v8_once, setupRuns>>
    /\ UNCHANGED <<g_platform, calls, setupOk, setupDone, firstResult>>
    /\ UNCHANGED <<ctxVars, isoVars, reVars>>

(***************************************************************************)
(* Strings, values and the global namespace                                *)
(***************************************************************************)
\* a null char* / an unset out-slot
Null == "<null>"

\* dotted paths the host registers functions at, as the characters of the C
\* string: "", "f", "g", "a.f", "a..f"
RegisterNames ==
    { <<>>, <<"f">>, <<"g">>, <<"a", ".", "f">>, <<"a", ".", ".", "f">> }

\* dotted paths the host sets globals at: "f", "a"
SetNames == { <<"f">>, <<"a">> }

\* engine values held by properties of the global object (and of objects
\* reachable from it): a plain object, a string, a number, or the function
\* object of a trampoline whose v8::External points at data[ptr]
ObjectValue == [kind |-> "object", s |-> "", n |-> 0, ptr |-> 0]

StringValue(str) == [kind |-> "string", s |-> str, n |-> 0, ptr |-> 0]

NumberValue(num) == [kind |-> "number", s |-> "", n |-> num, ptr |-> 0]

FunctionValue(p) == [kind |-> "function", s |-> "", n |-> 0, ptr |-> p]

UndefinedValue == [kind |-> "undefined", s |-> "", n |-> 0, ptr |-> 0]

NullValue == [kind |-> "null", s |-> "", n |-> 0, ptr |-> 0]

\* a property a script defined with a setter that throws and no getter:
\* reading it gives undefined, setting it fails
AccessorValue == [kind |-> "accessor", s |-> "", n |-> 0, ptr |-> 0]

\* whether v8::Object::Set of the property fails
Locked(g, loc) == loc \in DOMAIN g /\ g[loc].kind = "accessor"

\* v8::Object::Get of a property that is present
Get(g, loc) == IF Locked(g, loc) THEN UndefinedValue ELSE g[loc]

\* v8::Value::IsUndefined() || v8::Value::IsNull()
IsNullish(v) == v.kind \in {"undefined", "null"}

\* a test that takes every value for an object
IsAnything(v) == TRUE

\* v8::Value::IsObject: plain objects and functions are objects
IsObject(v) == v.kind \in {"object", "function"}

\* v8::Value::IsFunction
IsFunction(v) == v.kind = "function"

\* whether location `l` lies strictly below location `loc`
Below(loc, l) == Len(l) > Len(loc) /\ SubSeq(l, 1, Len(loc)) = loc

\* v8::Object::Set of property `loc`: the old value, and with it every
\* property reached through it, is replaced by `v`
SetProperty(g, loc, v) ==
    [l \in {k \in DOMAIN g : ~Below(loc, k)} \cup {loc} |-> IF l = loc THEN v ELSE g[l]]

\* std::string_view::find('.', start), 1-based; 0 is npos
FindDot(path, start) ==
    LET dots == {i \in start..Len(path) : path[i] = "."}
    IN IF dots = {} THEN 0 ELSE CHOOSE i \in dots : \A j \in dots : i <= j

PathResult(ok, g, target, key, error) ==
    [ok |-> ok, ns |-> g, target |-> target, key |-> key, error |-> error]

\* the loop of ensure_property_path from position `start`, `current` being
\* the location of the object reached so far
RECURSIVE WalkPath(_, _, _, _)
WalkPath(g, path, start, current) ==
    IF start > Len(path)
    THEN PathResult(FALSE, g, <<>>, <<>>, "property name was empty")
    ELSE LET dot == FindDot(path, start)
             segment == IF dot = 0 THEN SubSeq(path, start, Len(path))
                                   ELSE SubSeq(path, start, dot - 1)
             loc == Append(current, segment)
         IN IF segment = <<>>
            THEN PathResult(FALSE, g, <<>>, <<>>, "property path contained an empty segment")
            ELSE IF dot = 0
            THEN PathResult(TRUE, g, current, segment, Null)
            ELSE IF loc \notin DOMAIN g \/ IsNullish(Get(g, loc))
            THEN IF Locked(g, loc)
                 THEN PathResult(FALSE, g, <<>>, <<>>,
                                 "failed to assign intermediate object on property path")
                 ELSE WalkPath(SetProperty(g, loc, ObjectValue), path, dot + 1, loc)
            ELSE IF ~IsObject(g[loc])
            THEN PathResult(FALSE, g, <<>>, <<>>,
                            "property path conflicts with existing non-object value")
            ELSE WalkPath(g, path, dot + 1, loc)

\* a resolution that takes the whole path for one property name of the
\* global object
ensure_property_flat(g, path) ==
    IF path = <<>>
    THEN PathResult(FALSE, g, <<>>, <<>>, "property name was empty")
    ELSE PathResult(TRUE, g, <<>>, path, Null)

ensure_property_path(g, path) ==
    IF path = <<>>
    THEN PathResult(FALSE, g, <<>>, <<>>, "property name was empty")
    ELSE WalkPath(g, path, 1, <<>>)

(***************************************************************************)
(* String conversions and exceptions                                       *)
(***************************************************************************)
\* the largest number the host sets as a global
MaxNumber == 60

\* calls of shim_context_set_global_string / _number on nested paths
MaxPathSets == 3

\* calls that set a global, and calls that register a function, in the
\* scenarios of calls and of failures
MaxScenarioCalls == 2

Digit == <<"0", "1", "2", "3", "4", "5", "6", "7", "8", "9">>

\* the engine's string form of a number (integer-valued doubles print as
\* decimal integers)
RECURSIVE NumberToString(_)
NumberToString(n) ==
    IF n < 10 THEN Digit[n + 1] ELSE NumberToString(n \div 10) \o Digit[(n % 10) + 1]

\* the C string of a name given as its characters
RECURSIVE CString(_)
CString(chars) == IF chars = <<>> THEN "" ELSE chars[1] \o CString(Tail(chars))

\* a conversion that gives the empty string for every value
value_to_empty(v) == ""

\* value_to_utf8: v8::String::Utf8Value of the value, copied
value_to_utf8(v) ==
    CASE v.kind = "string" -> v.s
      [] v.kind = "number" -> NumberToString(v.n)
      [] v.kind = "undefined" -> "undefined"
      [] v.kind = "null" -> "null"
      [] v.kind = "object" -> "[object Object]"
      [] v.kind = "function" -> "function () { [native code] }"

\* the state of the v8::TryCatch when an engine call has failed: nothing
\* caught, or an exception with its string form (Null when the conversion
\* gives no string) and the text of its v8::Message (Null when the message
\* is empty)
NoException == [pending |-> FALSE, text |-> Null, diag |-> Null]

Thrown(text, diag) == [pending |-> TRUE, text |-> text, diag |-> diag]

\* the engine's message for an uncaught exception
Uncaught(text) == "Uncaught " \o text

\* an exception of string form `text` thrown where the engine has a
\* v8::Message for it
EngineThrown(text) == Thrown(text, Uncaught(text))


\* a capture that reports only the diagnostic of the exception
capture_diagnostic_only(tc) ==
    IF tc.pending /\ tc.diag # Null THEN tc.diag ELSE "V8 execution failed"

\* capture_exception: the exception's string form (or "unknown V8
\* exception"), then a newline and the message text when there is one; the
\* generic text when nothing was caught
capture_exception(tc) ==
    IF tc.pending
    THEN (IF tc.text # Null THEN tc.text ELSE "unknown V8 exception")
         \o (IF tc.diag # Null THEN "\n" \o tc.diag ELSE "")
    ELSE "V8 execution failed"

(***************************************************************************)
(* What a call on the context did (the record kept in lastOp)              *)
(***************************************************************************)
Event(e, name, id) == [e |-> e, name |-> name, id |-> id]

NoOp ==
    [op |-> "none", name |-> <<>>, id |-> 0, src |-> "", status |-> -1,
     error |-> Null, result |-> Null, events |-> <<>>, hit |-> FALSE,
     compiled |-> FALSE, prior |-> FALSE, handle |-> "valid", released |-> FALSE,
     exc |-> NoException, args |-> <<>>, handler |-> "none", value |-> UndefinedValue]

\* a failure that leaves the caller's error slot untouched
SilentFailure(op, name, id, src, message, events) ==
    [NoOp EXCEPT !.op = op, !.name = name, !.id = id, !.src = src, !.status = 0,
                 !.events = events]

\* assign_error: the message reaches the caller's slot
Failure(op, name, id, src, message, events) ==
    [NoOp EXCEPT !.op = op, !.name = name, !.id = id, !.src = src, !.status = 0,
                 !.error = message, !.events = events]

Success(op, name, id, src, result, events) ==
    [NoOp EXCEPT !.op = op, !.name = name, !.id = id, !.src = src, !.status = 1,
                 !.result = result, !.events = events]

(***************************************************************************)
(* The native callback registry                                            *)
(***************************************************************************)
\* native_callbacks.find(path_key)
RegistryFind(reg, name) == {e \in reg : e[1] = name}

\* the drop notifications of an existing entry (entry.second is never null)
DropEvents(found) ==
    IF found = {} THEN <<>>
    ELSE LET e == CHOOSE x \in found : TRUE
         IN <<Event("drop", e[1], data[e[2]].function_id), Event("erase", e[1], 0)>>

\* a registration that keeps the entry found at path_key
RegistryAppend(reg, name, p) == reg \cup {<<name, p>>}

\* lines 473-481: erase the entry found at path_key, emplace the new one
RegistryReplace(reg, name, p) == (reg \ RegistryFind(reg, name)) \cup {<<name, p>>}

\* the NativeCallbackData a function object of the namespace points at
Referenced(g) == {g[l].ptr : l \in {k \in DOMAIN g : IsFunction(g[k])}}

\* the unique_ptr of every entry in `found` is destroyed: the object is dead,
\* and its address stays taken only while a function object of the
\* namespace `g` still points at it
Release(heap, found, g) ==
    LET dead == {e[2] : e \in found}
    IN [p \in (DOMAIN heap \ dead) \cup (dead \cap Referenced(g)) |->
           IF p \in dead THEN [heap[p] EXCEPT !.live = FALSE] ELSE heap[p]]

\* std::make_unique<NativeCallbackData>(): an address not in use
NewData(heap) == CHOOSE p \in 1..(MaxRegisters + 1) : p \notin DOMAIN heap /\ \A q \in 1..(p - 1) : q \in DOMAIN heap

\* calls of pacm_v8__host_function_drop, one per entry in `found`
CountDrops(counts, found) ==
    [i \in FunctionIds |->
        counts[i] + Cardinality({e \in found : data[e[2]].function_id = i})]

\* a path that notifies the host of no drop
DropNothing(found) == {}

\* the entries whose id shim_context_register_host_function drops: the one
\* found at path_key
DroppedOnReplace(found) == found

\* a failed registration that drops and erases the entry found at the path
DropsFoundEntry(found) == found

\* the entries a call of shim_context_register_host_function that returns 0
\* drops and erases: every return 0 comes before the lookup in the registry
DroppedOnFailure(found) == {}

(***************************************************************************)
(* Handles                                                                 *)
(***************************************************************************)
\* ensure_context on the handle of the context: the wrapper was not deleted
\* and the IsolateWrapper it points at still holds its isolate
ValidContext == ctx = "live" /\ isolates[ContextIsolate] = "live"

\* ensure_script on a script handle: the wrapper was not deleted and the
\* IsolateWrapper it points at was not deleted
ValidScript(h) ==
    h \in DOMAIN scripts /\ scripts[h].live /\ isolates[scripts[h].isolate] = "live"

(***************************************************************************)
(* shim_context_set_global_string / shim_context_set_global_number         *)
(***************************************************************************)
\* target->Set(ctx, key, value).FromMaybe(false): the property is set; when
\* the property rejects assignment, the engine threw (nothing is set) or
\* refused without throwing
SetOutcomes(g, loc) == IF Locked(g, loc) THEN {"threw", "refused"} ELSE {"ok"}

\* the TryCatch state after a Set that did not succeed
SetException(set) ==
    IF set = "threw"
    THEN EngineThrown("Error: locked")
    ELSE NoException

\* an assignment that erases every registry entry
ErasedAll(reg, loc) == reg

\* the registry entries an assignment to the property at `loc` erases:
\* target->Set replaces the value in the engine and does not reach
\* native_callbacks
ErasedByOverwrite(reg, loc) == {}

set_global(op, name, value) ==
    /\ ValidContext
    /\ nsets' = nsets + 1
    /\ LET r == ensure_property_path(ns, name)
       IN
       /\ native_callbacks' =
             native_callbacks \ ErasedByOverwrite(native_callbacks, Append(r.target, r.key))
       /\ IF ~r.ok
          THEN /\ ns' = r.ns
               /\ lastOp' = Failure(op, name, 0, "", r.error, <<>>)
          ELSE \E set \in SetOutcomes(r.ns, Append(r.target, r.key)) :
                 IF set # "ok"
                 THEN /\ ns' = r.ns
                      /\ lastOp' = [Failure(op, name, 0, "",
                                            capture_exception(SetException(set)), <<>>)
                                        EXCEPT !.exc = SetException(set)]
                 ELSE /\ ns' = SetProperty(r.ns, Append(r.target, r.key), value)
                      /\ lastOp' = [Success(op, name, 0, "", Null,
                                            <<Event("set", name, 0)>>)
                                        EXCEPT !.value = value]
    /\ UNCHANGED <<ctx, cache, data, scripts, dropCount, okRegs,
                   passedIds, replaced, evaled, ranOk, nregs>>
    /\ UNCHANGED <<initVars, isoVars, reVars>>

shim_context_set_global_string(name, value) ==
    set_global("set_global_string", name, StringValue(value))

shim_context_set_global_number(name, value) ==
    set_global("set_global_number", name, NumberValue(value))

(***************************************************************************)
(* shim_context_register_host_function                                     *)
(***************************************************************************)
\* an installation that keeps a function object the path already holds
InstallUnlessFunction(g, loc, p) ==
    IF loc \in DOMAIN g /\ IsFunction(g[loc]) THEN g ELSE SetProperty(g, loc, FunctionValue(p))

\* target->Set(ctx, key, function): the new function object, whose
\* v8::External is data.get(), replaces whatever the path held
InstallFunction(g, loc, p) == SetProperty(g, loc, FunctionValue(p))

\* a registration that records the new entry before it drops the old id
RegisterEventsRecordFirst(name, id, found) ==
    <<Event("install", name, id), Event("record", name, id)>> \o DropEvents(found)

\* the order of the steps after the path is resolved: the function is set at
\* the path, then the old entry is dropped and erased, then the new entry is
\* recorded
RegisterEvents(name, id, found) ==
    <<Event("install", name, id)>> \o DropEvents(found) \o <<Event("record", name, id)>>

shim_context_register_host_function(name, function_id) ==
    /\ ValidContext
    /\ nregs < MaxRegisters
    /\ nregs' = nregs + 1
    /\ passedIds' = passedIds \cup {function_id}
    /\ LET r == ensure_property_path(ns, name)
           p == NewData(data)
           found == RegistryFind(native_callbacks, name)
           dropped == DroppedOnReplace(found)
       IN IF ~r.ok
          THEN /\ ns' = r.ns
               /\ lastOp' = Failure("register", name, function_id, "", r.error,
                                    DropEvents(DroppedOnFailure(found)))
               /\ dropCount' = CountDrops(dropCount, DroppedOnFailure(found))
               /\ native_callbacks' = native_callbacks \ DroppedOnFailure(found)
               /\ UNCHANGED <<data, okRegs, replaced>>
          ELSE \E set \in SetOutcomes(r.ns, Append(r.target, r.key)) :
               IF set # "ok"
               THEN /\ ns' = r.ns
                    /\ lastOp' = [Failure("register", name, function_id, "",
                                          capture_exception(SetException(set)),
                                          DropEvents(DroppedOnFailure(found)))
                                      EXCEPT !.exc = SetException(set)]
                    /\ dropCount' = CountDrops(dropCount, DroppedOnFailure(found))
                    /\ native_callbacks' = native_callbacks \ DroppedOnFailure(found)
                    /\ UNCHANGED <<data, okRegs, replaced>>
               ELSE
               /\ ns' = InstallFunction(r.ns, Append(r.target, r.key), p)
               /\ data' = Release(p :> [function_id |-> function_id, live |-> TRUE,
                                         name |-> name] @@ data, found, ns')
               /\ dropCount' = CountDrops(dropCount, dropped)
               /\ native_callbacks' = RegistryReplace(native_callbacks, name, p)
               /\ okRegs' = [okRegs EXCEPT ![function_id] = @ + 1]
               /\ replaced' = replaced \cup {<<e[1], data[e[2]].function_id>> : e \in found}
               /\ lastOp' = Success("register", name, function_id, "", Null,
                                    RegisterEvents(name, function_id, dropped))
    /\ UNCHANGED <<ctx, cache, scripts, evaled, ranOk, nsets>>
    /\ UNCHANGED <<initVars, isoVars, reVars>>

(***************************************************************************)
(* shim_dispose_context                                                    *)
(***************************************************************************)
\* the sequences that list every element of `S` once
Orders(S) ==
    {q \in [1..Cardinality(S) -> S] : \A i, j \in 1..Cardinality(S) : q[i] = q[j] => i = j}

\* dispose_native_callbacks: every entry's id is dropped, in the map's
\* iteration order, then the map is cleared
DisposeDropped(reg) == reg

\* a disposal that releases the context's handle before the cache and the
\* registry
DisposeEventsHandleFirst(entries, drops) ==
    <<Event("context_reset", <<>>, 0),
      Event("cache_reset", <<>>, entries), Event("cache_clear", <<>>, 0)>>
    \o drops
    \o <<Event("registry_clear", <<>>, 0), Event("delete", <<>>, 0)>>

\* the steps of shim_dispose_context in order: Reset of each of the
\* `entries` cached scripts, cache.clear(), dispose_native_callbacks (the
\* drops, then native_callbacks.clear()), context->Reset(), delete context
DisposeEvents(entries, drops) ==
    <<Event("cache_reset", <<>>, entries), Event("cache_clear", <<>>, 0)>>
    \o drops
    \o <<Event("registry_clear", <<>>, 0), Event("context_reset", <<>>, 0),
         Event("delete", <<>>, 0)>>

shim_dispose_context ==
    /\ ValidContext
    /\ ctx' = "disposed"
    /\ cache' = {}
    /\ LET dropped == DisposeDropped(native_callbacks)
       IN /\ dropCount' = CountDrops(dropCount, dropped)
          /\ \E order \in Orders(dropped) :
                lastOp' = Success("dispose_context", <<>>, 0, "", Null,
                    DisposeEvents(Cardinality(cache),
                        [i \in 1..Len(order) |->
                           Event("drop", order[i][1], data[order[i][2]].function_id)]))
    /\ ns' = [l \in {} |-> ObjectValue]
    /\ data' = Release(data, native_callbacks, ns')
    /\ native_callbacks' = {}
    /\ UNCHANGED <<scripts, okRegs, passedIds, replaced, evaled, ranOk, nregs, nsets>>
    /\ UNCHANGED <<initVars, isoVars, reVars>>

(***************************************************************************)
(* Sources, compilation and running                                        *)
(***************************************************************************)
kMaxCacheableSourceLength == 64 * 1024

\* the names of the end-to-end scenario, as the characters of the C strings
DoubleName == <<"d", "o", "u", "b", "l", "e">>

FortyTwoName == <<"f", "o", "r", "t", "y", "_", "t", "w", "o">>

\* source texts the host passes: the empty text, a text of exactly the
\* cacheable limit, a text one byte over it, a text with a syntax error, a
\* text whose run throws an Error, a text whose run throws an Error for which
\* the engine has no message, a text whose run throws an object that has no
\* string form, a text that assigns null to the global a, a text that
\* defines the global a with a setter that throws, the text "f()" that calls
\* the global f, and the text that calls the global double with the string
\* form of the global forty_two, the text "g=f" that assigns the value of
\* the global f to the global g, and the text "g()" that calls the global g
Sources ==
    {"", "limit", "long", "syntax", "throw", "throw_nomsg", "throw_obj", "a=null",
     "lock_a", "f()", "double(String(forty_two))", "g=f", "g()"}

\* std::strlen(source)
strlen(source) ==
    CASE source = "" -> 0
      [] source = "limit" -> kMaxCacheableSourceLength
      [] source = "long" -> kMaxCacheableSourceLength + 1
      [] source = "syntax" -> 6
      [] source = "throw" -> 5
      [] source = "throw_nomsg" -> 11
      [] source = "throw_obj" -> 9
      [] source = "a=null" -> 6
      [] source = "lock_a" -> 6
      [] source = "f()" -> 3
      [] source = "g=f" -> 3
      [] source = "g()" -> 3
      [] source = "double(String(forty_two))" -> 25

\* v8::Script::Compile(...).ToLocal(&script)
Compiles(source) == source # "syntax"

\* the exception pending after a failed compilation
CompileException == EngineThrown("SyntaxError: Unexpected identifier")

\* the handlers the host may have behind a function id: one that reports
\* failure with a message, one that reports failure without a message, one
\* that returns a result string, one that returns no result, and one that
\* doubles the number its single argument spells
HandlerOutcomes == {"error", "error_null", "result", "no_result", "doubled"}

\* handlers that also fill the slot their status does not call for: one
\* that returns a result and leaves an error string as well, one that
\* reports failure with a message and leaves a result string as well
StrayOutcomes == {"stray_error", "stray_result"}

\* the number a decimal string spells (host side)
IsDecimal(str) == \E n \in 0..MaxNumber : NumberToString(n) = str

ParseDecimal(str) == CHOOSE n \in 0..MaxNumber : NumberToString(n) = str

\* pacm_v8__host_function_invoke: the status and the strings the handler
\* leaves in result_out and error_out
pacm_v8__host_function_invoke(h, args) ==
    CASE h = "error" -> [status |-> 0, result |-> Null, error |-> "host error"]
      [] h = "error_null" -> [status |-> 0, result |-> Null, error |-> Null]
      [] h = "result" -> [status |-> 1, result |-> "host result", error |-> Null]
      [] h = "no_result" -> [status |-> 1, result |-> Null, error |-> Null]
      [] h = "stray_error" -> [status |-> 1, result |-> "host result", error |-> "stray"]
      [] h = "stray_result" -> [status |-> 0, result |-> "stray", error |-> "host error"]
      [] h = "doubled" ->
            IF Len(args) = 1 /\ IsDecimal(args[1])
            THEN [status |-> 1, result |-> NumberToString(2 * ParseDecimal(args[1])),
                  error |-> Null]
            ELSE [status |-> 0, result |-> Null, error |-> "expected one number"]

\* the function id the trampoline reads through info.Data(): data->function_id,
\* any value when the NativeCallbackData was already destroyed
TrampolineIds(p) ==
    IF p \in DOMAIN data /\ data[p].live THEN {data[p].function_id} ELSE FunctionIds

\* the trampoline's read of data->function_id through info.Data(): a read
\* of the NativeCallbackData a registry entry owns, or of one that was
\* destroyed with its entry
MetadataRead(p) ==
    IF p \in DOMAIN data /\ data[p].live
    THEN <<Event("read_metadata", <<>>, p)>>
    ELSE <<Event("read_released", <<>>, p)>>

\* what running a compiled unit (or calling a function) gave: a completion
\* value converted by value_to_utf8, or the TryCatch state after the failure
RunResult(ok, result, exc, events) ==
    [ok |-> ok, result |-> result, exc |-> exc, events |-> events,
     args |-> <<>>, handler |-> "none"]

\* a trampoline that returns the host's error string as the call's value
TrampolineNeverThrows(id, h, args) ==
    LET r == pacm_v8__host_function_invoke(h, args)
    IN [threw |-> FALSE,
        value |-> IF r.result # Null THEN StringValue(r.result)
                  ELSE IF r.error # Null THEN StringValue(r.error) ELSE UndefinedValue,
        message |-> Null]

\* native_function_trampoline with data->function_id = id and the arguments
\* already converted: it throws the handler's message (or the generic one)
\* when the status is 0, returns the result string when there is one, and
\* undefined otherwise
Trampoline(id, h, args) ==
    LET r == pacm_v8__host_function_invoke(h, args)
    IN IF r.status = 0
       THEN [threw |-> TRUE, value |-> UndefinedValue,
             message |-> IF r.error # Null THEN r.error
                         ELSE "host function invocation failed"]
       ELSE [threw |-> FALSE,
             value |-> IF r.result # Null THEN StringValue(r.result) ELSE UndefinedValue,
             message |-> Null]

\* the argument strings the trampoline allocates with value_to_utf8
\* (copy_string), one per argument, before it invokes the host
ArgumentAllocs(args) == [i \in 1..Len(args) |-> Event("copy_string", <<>>, i)]

\* a trampoline that releases an error string only when the status is 0
FreesErrorOnFailureOnly(r, args) ==
    [i \in 1..Len(args) |-> Event("shim_free_string", <<>>, i)]
    \o (IF r.status = 0 /\ r.error # Null
        THEN <<Event("pacm_v8__string_free", <<"error">>, 0)>> ELSE <<>>)
    \o (IF r.status # 0 /\ r.result # Null
        THEN <<Event("pacm_v8__string_free", <<"result">>, 0)>> ELSE <<>>)

\* the strings the trampoline releases after the host returned `r`: every
\* argument string with shim_free_string; with pacm_v8__string_free the
\* error string (whatever the status) and, when the status is not 0, the
\* result string; with status 0 it returns before it looks at result_ptr
TrampolineFrees(r, args) ==
    [i \in 1..Len(args) |-> Event("shim_free_string", <<>>, i)]
    \o (IF r.error # Null THEN <<Event("pacm_v8__string_free", <<"error">>, 0)>> ELSE <<>>)
    \o (IF r.status # 0 /\ r.result # Null
        THEN <<Event("pacm_v8__string_free", <<"result">>, 0)>> ELSE <<>>)

\* a call of the function object `f` with the values `js_args`, the host
\* having one of `handlers` behind the id: the trampoline converts each
\* argument with value_to_utf8 and invokes the host once; an exception it
\* throws is not caught by the caller
CallFunctionWith(f, js_args, handlers) ==
    LET args == [i \in 1..Len(js_args) |-> value_to_utf8(js_args[i])]
    IN UNION { LET t == Trampoline(id, h, args)
                  invoke == MetadataRead(f.ptr) \o ArgumentAllocs(args)
                            \o <<Event("invoke", <<>>, id)>>
                            \o TrampolineFrees(pacm_v8__host_function_invoke(h, args), args)
              IN IF t.threw
                 THEN {[RunResult(FALSE, Null, EngineThrown(t.message), invoke)
                           EXCEPT !.args = args, !.handler = h]}
                 ELSE {[RunResult(TRUE, value_to_utf8(t.value), NoException, invoke)
                           EXCEPT !.args = args, !.handler = h]} :
              id \in TrampolineIds(f.ptr), h \in handlers }

CallFunction(f, js_args) == CallFunctionWith(f, js_args, HandlerOutcomes)

\* the call a source makes: the global it calls and the global whose string
\* form it passes (<<>>: no argument)
CallOf(source) ==
    CASE source = "f()" -> [fn |-> <<"f">>, arg |-> <<>>]
      [] source = "g()" -> [fn |-> <<"g">>, arg |-> <<>>]
      [] OTHER -> [fn |-> DoubleName, arg |-> FortyTwoName]

\* a script that throws `text`
ScriptThrows(text) == {RunResult(FALSE, Null, EngineThrown(text), <<>>)}

\* the run of a call expression: the callee is resolved, then the argument is
\* evaluated (String(v) is the string form of v), then the callee is called
ScriptCall(g, fn, arg) ==
    IF <<fn>> \notin DOMAIN g
    THEN ScriptThrows("ReferenceError: " \o CString(fn) \o " is not defined")
    ELSE IF arg # <<>> /\ <<arg>> \notin DOMAIN g
    THEN ScriptThrows("ReferenceError: " \o CString(arg) \o " is not defined")
    ELSE IF ~IsFunction(g[<<fn>>])
    THEN ScriptThrows("TypeError: " \o CString(fn) \o " is not a function")
    ELSE CallFunction(g[<<fn>>],
                      IF arg = <<>> THEN <<>>
                      ELSE <<StringValue(value_to_utf8(Get(g, <<arg>>)))>>)

\* script->Run(ctx) of the unit compiled from `source` against the global
\* namespace `g`: every outcome it can have
RunOutcomes(g, source) ==
    CASE source = "throw" -> ScriptThrows("Error: thrown")
      [] source = "throw_nomsg" ->
            {RunResult(FALSE, Null, Thrown("Error: thrown", Null), <<>>)}
      [] source = "throw_obj" ->
            {RunResult(FALSE, Null, Thrown(Null, diag), <<>>) :
                diag \in {Uncaught("#<Object>"), Null}}
      [] source = "a=null" ->
            IF Locked(g, <<<<"a">>>>)
            THEN ScriptThrows("Error: locked")
            ELSE {RunResult(TRUE, value_to_utf8(NullValue), NoException, <<>>)}
      [] source \in {"f()", "g()", "double(String(forty_two))"} ->
            ScriptCall(g, CallOf(source).fn, CallOf(source).arg)
      [] source = "g=f" ->
            IF <<<<"f">>>> \notin DOMAIN g
            THEN ScriptThrows("ReferenceError: f is not defined")
            ELSE {RunResult(TRUE, value_to_utf8(Get(g, <<<<"f">>>>)), NoException, <<>>)}
      [] OTHER -> {RunResult(TRUE, value_to_utf8(UndefinedValue), NoException, <<>>)}

\* the global namespace after a successful run of the unit
RunEffect(g, source) ==
    CASE source = "a=null" ->
            IF Locked(g, <<<<"a">>>>) THEN g ELSE SetProperty(g, <<<<"a">>>>, NullValue)
      [] source = "lock_a" -> SetProperty(g, <<<<"a">>>>, AccessorValue)
      [] source = "g=f" -> SetProperty(g, <<<<"g">>>>, Get(g, <<<<"f">>>>))
      [] OTHER -> g

(***************************************************************************)
(* shim_context_eval                                                       *)
(***************************************************************************)
\* a cache whose entry is usable only while a script handle of the same
\* source is alive
CacheFindsLiveScript(c, source) ==
    source \in c /\ \E h \in DOMAIN scripts : scripts[h].live /\ scripts[h].cache_key = source

\* context->cache.find(source) != context->cache.end()
CacheFinds(c, source) == source \in c

\* a length check that excludes a source of exactly the limit
CacheableBelow(source) == strlen(source) < kMaxCacheableSourceLength

\* len <= kMaxCacheableSourceLength
Cacheable(source) == strlen(source) <= kMaxCacheableSourceLength

\* an eval that keeps the compiled unit only when its run succeeded
InsertsAfterRun(hit, source, ok) == ~hit /\ Cacheable(source) /\ ok

\* whether shim_context_eval inserts the compiled unit: on a miss, for a
\* source within the limit; the insertion precedes script->Run, so the
\* outcome `ok` of the run plays no part
InsertsOnMiss(hit, source, ok) == ~hit /\ Cacheable(source)

shim_context_eval(source) ==
    /\ ValidContext
    /\ evaled' = evaled \cup {source}
    /\ LET hit == CacheFinds(cache, source)
           info == [NoOp EXCEPT !.op = "eval", !.src = source, !.hit = hit,
                                !.prior = (source \in evaled)]
       IN IF ~hit /\ ~Compiles(source)
          THEN /\ lastOp' = [info EXCEPT !.status = 0, !.compiled = TRUE,
                                         !.error = capture_exception(CompileException),
                                         !.exc = CompileException,
                                         !.events = <<Event("compile", <<>>, 0)>>]
               /\ cache' = cache
               /\ ns' = ns
          ELSE \E o \in RunOutcomes(ns, source) :
                   /\ cache' = IF InsertsOnMiss(hit, source, o.ok)
                               THEN cache \cup {source} ELSE cache
                   /\ ns' = IF o.ok THEN RunEffect(ns, source) ELSE ns
                   /\ lastOp' = [info EXCEPT
                        !.status = IF o.ok THEN 1 ELSE 0,
                        !.compiled = ~hit,
                        !.result = o.result,
                        !.error = IF o.ok THEN Null ELSE capture_exception(o.exc),
                        !.exc = o.exc,
                        !.args = o.args,
                        !.handler = o.handler,
                        !.events = (IF hit THEN <<>> ELSE <<Event("compile", <<>>, 0)>>)
                                   \o (IF InsertsOnMiss(hit, source, o.ok)
                                       THEN <<Event("cache_insert", <<>>, 0)>> ELSE <<>>)
                                   \o <<Event("run", <<>>, 0)>> \o o.events]
    /\ UNCHANGED <<ctx, native_callbacks, data, scripts, dropCount, okRegs,
                   passedIds, replaced, ranOk, nregs, nsets>>
    /\ UNCHANGED <<initVars, isoVars, reVars>>

(***************************************************************************)
(* shim_context_eval in steps: the host handler is entered and returns     *)
(***************************************************************************)
\* no evaluation is inside a handler
NoFrame ==
    [active |-> FALSE, done |-> FALSE, src |-> "", hit |-> FALSE, prior |-> FALSE,
     ptr |-> 0, id |-> 0, events |-> <<>>, nested |-> "none",
     released |-> FALSE, result |-> NoOp]

ReInit == pending = NoFrame

\* a trampoline that reads data->function_id again after the host returned
ReadsMetadataAgain(p) == MetadataRead(p)

\* what native_function_trampoline reads of the NativeCallbackData after
\* pacm_v8__host_function_invoke returned: nothing (data->function_id was
\* read for the call itself)
ReadsAfterInvoke(p) == <<>>

\* shim_context_eval of a source that calls a registered host function, up
\* to the moment the host handler is entered: the cache is looked up (and
\* the compiled unit inserted on a miss), the script runs and calls the
\* function, the trampoline reads data->function_id and calls
\* pacm_v8__host_function_invoke, which has not returned yet (no call on
\* the context has completed since: lastOp says so)
EvalEntersHandler(source) ==
    /\ ValidContext
    /\ ~pending.active
    /\ Compiles(source)
    /\ LET fn == <<CallOf(source).fn>>
           hit == CacheFinds(cache, source)
       IN /\ fn \in DOMAIN ns /\ IsFunction(ns[fn])
          /\ cache' = IF InsertsOnMiss(hit, source, TRUE) THEN cache \cup {source} ELSE cache
          /\ \E id \in TrampolineIds(ns[fn].ptr) :
                pending' = [NoFrame EXCEPT
                    !.active = TRUE, !.src = source, !.hit = hit,
                    !.prior = (source \in evaled),
                    !.ptr = ns[fn].ptr, !.id = id,
                    !.events = (IF hit THEN <<Event("read_cache", <<>>, 0)>>
                                ELSE <<Event("compile", <<>>, 0)>>)
                               \o (IF InsertsOnMiss(hit, source, TRUE)
                                   THEN <<Event("cache_insert", <<>>, 0)>> ELSE <<>>)
                               \o <<Event("run", <<>>, 0)>>
                               \o MetadataRead(ns[fn].ptr) \o ArgumentAllocs(<<>>)
                               \o <<Event("invoke", <<>>, id)>>]
    /\ evaled' = evaled \cup {source}
    /\ lastOp' = [NoOp EXCEPT !.op = "in_handler", !.src = source]
    /\ UNCHANGED <<ctx, native_callbacks, data, ns, scripts, dropCount, okRegs,
                   passedIds, replaced, ranOk, nregs, nsets>>
    /\ UNCHANGED <<initVars, isoVars>>

\* the host handler returns with outcome `h`: the trampoline releases the
\* strings and returns or throws, the script ends, and shim_context_eval
\* converts the completion value or captures the exception. The calls the
\* handler made on the context in between are the steps taken while
\* pending.active.
HandlerReturns(h) ==
    /\ pending.active
    /\ LET args == <<>>
           r == pacm_v8__host_function_invoke(h, args)
           t == Trampoline(pending.id, h, args)
           exc == IF t.threw THEN EngineThrown(t.message) ELSE NoException
           result ==
               [NoOp EXCEPT
                  !.op = "eval", !.src = pending.src, !.hit = pending.hit,
                  !.prior = pending.prior, !.compiled = ~pending.hit,
                  !.status = IF t.threw THEN 0 ELSE 1,
                  !.result = IF t.threw THEN Null ELSE value_to_utf8(t.value),
                  !.error = IF t.threw THEN capture_exception(exc) ELSE Null,
                  !.exc = exc, !.args = args, !.handler = h,
                  !.events = pending.events \o TrampolineFrees(r, args)
                             \o ReadsAfterInvoke(pending.ptr)]
       IN /\ lastOp' = result
          /\ pending' = [pending EXCEPT
                !.active = FALSE, !.done = TRUE, !.result = result,
                !.nested = IF lastOp.op # "in_handler" THEN lastOp.op ELSE "none",
                !.released = ~(pending.ptr \in DOMAIN data /\ data[pending.ptr].live)]
    /\ UNCHANGED <<ctx, cache, native_callbacks, data, ns, scripts, dropCount, okRegs,
                   passedIds, replaced, evaled, ranOk, nregs, nsets>>
    /\ UNCHANGED <<initVars, isoVars>>

(***************************************************************************)
(* shim_context_call_function                                              *)
(***************************************************************************)
\* the values passed to the function: a string per argument, undefined for
\* a null entry
CallArguments(args) ==
    [i \in 1..Len(args) |-> IF args[i] = Null THEN UndefinedValue ELSE StringValue(args[i])]

\* a lookup that takes every property of the global object to be callable
IsPresent(v) == TRUE

\* maybe_function->IsFunction()
IsCallable(v) == IsFunction(v)

call_function(fn_name, args, handlers) ==
    /\ ValidContext
    /\ LET loc == <<fn_name>>
       IN IF loc \notin DOMAIN ns \/ ~IsCallable(ns[loc])
          THEN lastOp' = Failure("call_function", fn_name, 0, "",
                                 "global function not found", <<>>)
          ELSE \E o \in CallFunctionWith(ns[loc], CallArguments(args), handlers) :
                  lastOp' =
                     IF o.ok
                     THEN [Success("call_function", fn_name, 0, "", o.result,
                                   <<Event("call", fn_name, 0)>> \o o.events)
                              EXCEPT !.args = o.args, !.handler = o.handler]
                     ELSE [Failure("call_function", fn_name, 0, "",
                                   capture_exception(o.exc),
                                   <<Event("call", fn_name, 0)>> \o o.events)
                              EXCEPT !.exc = o.exc, !.args = o.args,
                                     !.handler = o.handler]
    /\ UNCHANGED <<ctx, cache, native_callbacks, data, ns, scripts, dropCount, okRegs,
                   passedIds, replaced, evaled, ranOk, nregs, nsets>>
    /\ UNCHANGED <<initVars, isoVars, reVars>>

shim_context_call_function(fn_name, args) == call_function(fn_name, args, HandlerOutcomes)

(***************************************************************************)
(* shim_compile_script, shim_script_run, shim_script_dispose               *)
(***************************************************************************)
shim_compile_script(isolate, source) ==
    /\ isolates[isolate] = "live"
    /\ Len(scripts) < MaxScripts
    /\ IF ~Compiles(source)
       THEN /\ lastOp' = [Failure("compile_script", <<>>, 0, source,
                                  capture_exception(CompileException),
                                  <<Event("compile", <<>>, 0)>>)
                              EXCEPT !.compiled = TRUE, !.exc = CompileException]
            /\ scripts' = scripts
       ELSE /\ lastOp' = [Success("compile_script", <<>>, Len(scripts) + 1, source, Null,
                                  <<Event("compile", <<>>, 0)>>) EXCEPT !.compiled = TRUE]
            /\ scripts' = Append(scripts, [cache_key |-> source, live |-> TRUE,
                                              isolate |-> isolate])
    /\ UNCHANGED <<ctx, cache, native_callbacks, data, ns, dropCount, okRegs,
                   passedIds, replaced, evaled, ranOk, nregs, nsets>>
    /\ UNCHANGED <<initVars, isoVars, reVars>>

\* a run that never inserts into the cache
RunCachesNever(key) == FALSE

\* a check that takes every script to belong to the context's isolate
SameIsolateAlways(script_isolate, context_isolate) == TRUE

\* isolate == script_wrapper->isolate_wrapper->isolate
SameIsolate(script_isolate, context_isolate) == script_isolate = context_isolate

\* !script_wrapper->cache_key.empty()
RunCaches(key) == key # ""

shim_script_run(h) ==
    /\ ValidContext
    /\ ValidScript(h)
    /\ LET key == scripts[h].cache_key
       IN \E o \in RunOutcomes(ns, key) :
             IF ~SameIsolate(scripts[h].isolate, ContextIsolate)
             THEN /\ lastOp' = Failure("script_run", <<>>, h, key,
                                       "script and context belong to different isolates",
                                       <<>>)
                  /\ UNCHANGED <<cache, ranOk, ns>>
             ELSE IF ~o.ok
             THEN /\ lastOp' = [Failure("script_run", <<>>, h, key,
                                        capture_exception(o.exc),
                                        <<Event("run", <<>>, 0)>> \o o.events)
                                    EXCEPT !.exc = o.exc, !.args = o.args,
                                           !.handler = o.handler]
                  /\ UNCHANGED <<cache, ranOk, ns>>
             ELSE /\ lastOp' = [Success("script_run", <<>>, h, key, o.result,
                                        <<Event("run", <<>>, 0)>> \o o.events
                                        \o (IF RunCaches(key)
                                            THEN <<Event("cache_insert", <<>>, 0)>>
                                            ELSE <<>>))
                                    EXCEPT !.args = o.args, !.handler = o.handler]
                  /\ ns' = RunEffect(ns, key)
                  /\ cache' = IF RunCaches(key) THEN cache \cup {key} ELSE cache
                  /\ ranOk' = ranOk \cup {key}
    /\ UNCHANGED <<ctx, native_callbacks, data, scripts, dropCount, okRegs,
                   passedIds, replaced, evaled, nregs, nsets>>
    /\ UNCHANGED <<initVars, isoVars, reVars>>

shim_script_dispose(h) ==
    /\ ValidScript(h)
    /\ scripts' = [scripts EXCEPT ![h].live = FALSE]
    /\ lastOp' = Success("script_dispose", <<>>, h, scripts[h].cache_key, Null, <<>>)
    /\ UNCHANGED <<ctx, cache, native_callbacks, data, ns, dropCount, okRegs,
                   passedIds, replaced, evaled, ranOk, nregs, nsets>>
    /\ UNCHANGED <<initVars, isoVars, reVars>>

(***************************************************************************)
(* shim_create_isolate, shim_dispose_isolate                               *)
(***************************************************************************)
\* the next IsolateWrapper the host can be handed
NewIsolate == CHOOSE i \in Isolates : isolates[i] = "none" /\ \A j \in Isolates : j < i => isolates[j] # "none"

\* v8::Isolate::New gives an isolate (a wrapper is returned) or null (the
\* allocator is deleted and null is returned)
shim_create_isolate ==
    /\ \E i \in Isolates : isolates[i] = "none"
    /\ \E created \in BOOLEAN :
          IF created
          THEN /\ isolates' = [isolates EXCEPT ![NewIsolate] = "live"]
               /\ lastOp' = Success("create_isolate", <<>>, NewIsolate, "", Null, <<>>)
          ELSE /\ isolates' = isolates
               /\ lastOp' = [NoOp EXCEPT !.op = "create_isolate", !.status = 0]
    /\ UNCHANGED <<ctx, cache, native_callbacks, data, ns, scripts, dropCount, okRegs,
                   passedIds, replaced, evaled, ranOk, nregs, nsets>>
    /\ UNCHANGED <<initVars, reVars>>

\* the isolate is disposed and the IsolateWrapper deleted; the contexts and
\* scripts created on it keep their pointer to the deleted wrapper
shim_dispose_isolate(i) ==
    /\ isolates[i] = "live"
    /\ isolates' = [isolates EXCEPT ![i] = "disposed"]
    /\ lastOp' = Success("dispose_isolate", <<>>, i, "", Null, <<>>)
    /\ UNCHANGED <<ctx, cache, native_callbacks, data, ns, scripts, dropCount, okRegs,
                   passedIds, replaced, evaled, ranOk, nregs, nsets>>
    /\ UNCHANGED <<initVars, reVars>>

(***************************************************************************)
(* Calls with a handle that is null or was disposed                        *)
(***************************************************************************)
\* the operations that check a handle before they act: the context handle
\* (ensure_context), the script handle of shim_script_run (ensure_script),
\* the isolate handle of shim_compile_script (unwrap_isolate)
ContextOps == {"eval", "set_global_string", "set_global_number", "register", "call_function"}

HandleOps == ContextOps \cup {"script_run", "compile_script"}

\* the invalid handles the host can pass to `op`: null, the handle of a
\* wrapper that was deleted, the handle of a wrapper whose IsolateWrapper was
\* deleted
InvalidHandles(op) ==
    {"null"}
    \cup (CASE op \in ContextOps ->
                (IF ctx = "disposed" THEN {"disposed"} ELSE {})
                \cup (IF ctx = "live" /\ isolates[ContextIsolate] = "disposed"
                      THEN {"isolate_disposed"} ELSE {})
            [] op = "script_run" ->
                (IF \E h \in DOMAIN scripts : ~scripts[h].live THEN {"disposed"} ELSE {})
                \cup (IF \E h \in DOMAIN scripts :
                            scripts[h].live /\ isolates[scripts[h].isolate] = "disposed"
                      THEN {"isolate_disposed"} ELSE {})
            [] op = "compile_script" ->
                (IF \E i \in Isolates : isolates[i] = "disposed" THEN {"disposed"} ELSE {}))

\* the message of the check that rejects the handle
InvalidHandleError(op) ==
    CASE op \in ContextOps -> "invalid V8 context handle"
      [] op = "script_run" -> "invalid V8 script handle"
      [] op = "compile_script" -> "invalid isolate handle"

\* the message with which a call can fail after it read a deleted wrapper: a
\* context or an isolate whose isolate pointer reads as null is rejected by
\* the handle check; a script whose own wrapper is alive passes ensure_script
\* and the isolate comparison reads the deleted IsolateWrapper
ReleasedReadError(op, handle) ==
    IF op = "script_run" /\ handle = "isolate_disposed"
    THEN "script and context belong to different isolates"
    ELSE InvalidHandleError(op)

\* what a call of `op` with the invalid handle does. A null handle is
\* rejected by the null check. A deleted wrapper is not null: the check reads
\* the released memory, and the call is either rejected (the stale pointer
\* read as null) or goes on to the engine with the stale pointers, with any
\* outcome
InvalidHandleOutcomes(op, handle) ==
    IF handle = "null"
    THEN {[Failure(op, <<>>, 0, "", InvalidHandleError(op), <<>>) EXCEPT !.handle = handle]}
    ELSE {[Failure(op, <<>>, 0, "", ReleasedReadError(op, handle), <<>>)
              EXCEPT !.handle = handle, !.released = TRUE]}
         \cup {[NoOp EXCEPT !.op = op, !.handle = handle, !.released = TRUE,
                            !.status = st, !.events = <<Event("engine", <<>>, 0)>>,
                            !.error = IF st = 0 THEN "V8 execution failed" ELSE Null,
                            !.result = IF st = 1 THEN "undefined" ELSE Null] :
                st \in {0, 1}}

CallWithInvalidHandle(op, handle) ==
    /\ handle \in InvalidHandles(op)
    /\ lastOp' \in InvalidHandleOutcomes(op, handle)
    /\ UNCHANGED <<ctx, cache, native_callbacks, data, ns, scripts, dropCount, okRegs,
                   passedIds, replaced, evaled, ranOk, nregs, nsets>>
    /\ UNCHANGED <<initVars, isoVars, reVars>>

(***************************************************************************)
(* Initial state and specifications                                        *)
(***************************************************************************)
\* the context as shim_create_context leaves it: an empty cache, an empty
\* registry, a fresh global object
CtxInit ==
    /\ ctx = "live"
    /\ cache = {}
    /\ native_callbacks = {}
    /\ data = [p \in {} |-> [function_id |-> 0, live |-> FALSE, name |-> <<>>]]
    /\ ns = [l \in {} |-> ObjectValue]
    /\ scripts = <<>>
    /\ dropCount = [i \in FunctionIds |-> 0]
    /\ okRegs = [i \in FunctionIds |-> 0]
    /\ passedIds = {}
    /\ replaced = {}
    /\ evaled = {}
    /\ ranOk = {}
    /\ nregs = 0
    /\ nsets = 0
    /\ lastOp = NoOp

\* the isolates as the host's shim_create_isolate calls left them before it
\* created the context: the context's isolate exists, the other does not yet
IsoInit == isolates = [i \in Isolates |-> IF i = ContextIsolate THEN "live" ELSE "none"]

InitInit ==
    /\ g_v8_once = "fresh"
    /\ g_platform = "null"
    /\ pc = [t \in Threads |-> "idle"]
    /\ calls = [t \in Threads |-> 0]
    /\ lastCall = [t \in Threads |-> NoCall]
    /\ setupRuns = 0
    /\ setupOk = 0
    /\ setupDone = 0
    /\ firstResult = -1

Init == InitInit /\ CtxInit /\ IsoInit /\ ReInit

NextInit ==
    \E t \in Threads :
        \/ InitializeDone(t)
        \/ InitializeBegin(t)
        \/ InitializeBlock(t)
        \/ SetupEnd(t)
        \/ Wake(t)

SpecInit == Init /\ [][NextInit]_vars

\* the sources whose run reaches a registered host function
CallSources == {"f()"}

\* the sources that decide what the cache holds
CacheSources == {"", "limit", "long", "syntax", "throw"}

\* every call on the context's registry and namespace, and evaluations that
\* call through them
Next ==
    \/ nsets < MaxSets /\ \E name \in SetNames : shim_context_set_global_string(name, "x")
    \/ nsets < MaxSets /\ \E name \in SetNames : shim_context_set_global_number(name, 42)
    \/ \E name \in RegisterNames, id \in FunctionIds :
          shim_context_register_host_function(name, id)
    \/ \E source \in CallSources : shim_context_eval(source)
    \/ shim_dispose_context

Spec == Init /\ [][Next]_vars

\* every call that reads or writes the context's script cache
NextCache ==
    \/ \E source \in CacheSources : shim_context_eval(source)
    \/ \E source \in CacheSources : shim_compile_script(ContextIsolate, source)
    \/ \E h \in 1..MaxScripts : shim_script_run(h)
    \/ \E h \in 1..MaxScripts : shim_script_dispose(h)
    \/ shim_dispose_context

SpecCache == Init /\ [][NextCache]_vars

\* dotted paths the host sets nested globals at: "a", "a.b", "a.b.c", "a.d"
PathNames ==
    { <<"a">>, <<"a", ".", "b">>, <<"a", ".", "b", ".", "c">>, <<"a", ".", "d">> }

\* paths that are malformed: "", "b..c", "b.c."
BadPathNames == { <<>>, <<"b", ".", ".", "c">>, <<"b", ".", "c", ".">> }

\* the sources that change what the global a holds
PathSources == {"a=null", "lock_a"}

\* globals set at nested paths, a function registered at an intermediate
\* path, and scripts that make the first segment null or reject assignment
NextPath ==
    \/ nsets < MaxPathSets /\ \E name \in PathNames \cup BadPathNames :
          shim_context_set_global_string(name, "x")
    \/ nsets < MaxPathSets /\ \E name \in PathNames : shim_context_set_global_number(name, 42)
    \/ nregs < 1 /\ \E name \in {<<"a", ".", "b">>} \cup BadPathNames :
          shim_context_register_host_function(name, 7)
    \/ \E source \in PathSources : shim_context_eval(source)

SpecPath == Init /\ [][NextPath]_vars

\* the names the host calls: a registered function, a number, an absent one
CallNames == {DoubleName, FortyTwoName, <<"f">>}

\* the argument lists the host passes to a call: none, a numeric string, a
\* null entry
CallArgLists == {<<>>, <<"21">>, <<Null>>}

\* the numbers the host sets
NumberInputs == {42, 21}

\* the end-to-end scenario and its variations: the global forty_two set to a
\* number or a string, a host function registered at double, the script
\* that calls it, and calls of globals by name
NextCall ==
    \/ nsets < MaxScenarioCalls /\ shim_context_set_global_string(FortyTwoName, "x")
    \/ nsets < MaxScenarioCalls /\ \E value \in NumberInputs :
          shim_context_set_global_number(FortyTwoName, value)
    \/ nregs < MaxScenarioCalls /\ \E id \in FunctionIds :
          shim_context_register_host_function(DoubleName, id)
    \/ shim_context_eval("double(String(forty_two))")
    \/ \E name \in CallNames, args \in CallArgLists : shim_context_call_function(name, args)

SpecCall == Init /\ [][NextCall]_vars

\* the sources whose evaluation fails, and the one that makes the global a
\* reject assignment
ErrorSources == {"throw", "throw_nomsg", "throw_obj", "lock_a"}

\* the paths at which setting a global or registering a function can fail
ErrorNames == {<<>>, <<"a">>}

\* every fallible operation with inputs that make it fail (and that let it
\* succeed), and calls with a null handle
NextError ==
    \/ nsets < MaxScenarioCalls /\ \E name \in ErrorNames : shim_context_set_global_string(name, "x")
    \/ nsets < MaxScenarioCalls /\ \E name \in ErrorNames : shim_context_set_global_number(name, 42)
    \/ nregs < MaxScenarioCalls /\ \E name \in ErrorNames :
          shim_context_register_host_function(name, 7)
    \/ \E source \in ErrorSources : shim_context_eval(source)
    \/ \E args \in {<<>>} : shim_context_call_function(<<"a">>, args)
    \/ \E source \in {"syntax", "throw"} : shim_compile_script(ContextIsolate, source)
    \/ shim_script_run(1)
    \/ \E op \in HandleOps : CallWithInvalidHandle(op, "null")

SpecError == Init /\ [][NextError]_vars

\* the sources with which a script keeps and calls a function object: it
\* copies the function at f to g, calls g, calls f
AliasSources == {"g=f", "g()", "f()"}

\* registrations and re-registrations at the path f, scripts that keep a
\* reference to the function installed there and call it, and disposal
NextAlias ==
    \/ \E id \in FunctionIds : shim_context_register_host_function(<<"f">>, id)
    \/ \E source \in AliasSources : shim_context_eval(source)
    \/ shim_dispose_context

SpecAlias == Init /\ [][NextAlias]_vars

\* the paths at which a function is registered and then overwritten
OverwriteNames == { <<"a">>, <<"a", ".", "f">> }

\* registrations at the global a and below it, assignments to a by the host
\* and by a script, re-registrations and disposal
NextOverwrite ==
    \/ nsets < MaxScenarioCalls /\ shim_context_set_global_string(<<"a">>, "x")
    \/ nsets < MaxScenarioCalls /\ shim_context_set_global_number(<<"a">>, 42)
    \/ \E name \in OverwriteNames, id \in FunctionIds :
          shim_context_register_host_function(name, id)
    \/ shim_context_eval("a=null")
    \/ shim_dispose_context

SpecOverwrite == Init /\ [][NextOverwrite]_vars

\* the argument lists of the calls whose strings are followed: none, one
\* string, a string and a null entry
StringArgLists == {<<>>, <<"21">>, <<"1", Null>>}

\* a host function registered at f and called by name and by a script, the
\* host's handler having every outcome, the stray ones included
NextStrings ==
    \/ nregs < MaxScenarioCalls /\ \E id \in FunctionIds :
          shim_context_register_host_function(<<"f">>, id)
    \/ \E args \in StringArgLists :
          call_function(<<"f">>, args, HandlerOutcomes \cup StrayOutcomes)
    \/ shim_context_eval("f()")

SpecStrings == Init /\ [][NextStrings]_vars

\* the sources a handler evaluates while the script that called it waits
NestedSources == {"limit"}

\* the paths registered before and inside a handler
NestedNames == { <<"f">>, <<"g">> }

\* an evaluation of "f()" that enters the handler of f and returns from it;
\* every call taken while the handler has not returned is a call the
\* handler makes on the context (registrations, its own path included, and
\* evaluations); the same calls are made by the host between evaluations
NextReentrant ==
    \/ \E name \in NestedNames, id \in FunctionIds :
          shim_context_register_host_function(name, id)
    \/ \E source \in NestedSources : shim_context_eval(source)
    \/ EvalEntersHandler("f()")
    \/ \E h \in HandlerOutcomes : HandlerReturns(h)

SpecReentrant == Init /\ [][NextReentrant]_vars

\* the sources compiled on the isolates
IsolateSources == {"limit"}

\* the invalid handles the host can come to hold
HandleKinds == {"null", "disposed", "isolate_disposed"}

\* isolates, scripts compiled on them, runs against the context, disposals,
\* and calls with handles that are null or were disposed
NextIsolate ==
    \/ shim_create_isolate
    \/ \E i \in Isolates : shim_dispose_isolate(i)
    \/ \E i \in Isolates, source \in IsolateSources : shim_compile_script(i, source)
    \/ \E h \in 1..MaxScripts : shim_script_run(h)
    \/ \E h \in 1..MaxScripts : shim_script_dispose(h)
    \/ \E source \in IsolateSources : shim_context_eval(source)
    \/ shim_dispose_context
    \/ \E op \in HandleOps, handle \in HandleKinds : CallWithInvalidHandle(op, handle)

SpecIsolate == Init /\ [][NextIsolate]_vars

(***************************************************************************)
(* Claims about shim_v8_initialize (checked under SpecInit)                *)
(***************************************************************************)
Returned(t) == lastCall[t].state = "returned"

Running == {t \in Threads : pc[t] = "running"}

EntriesOf(id) == {e \in native_callbacks : data[e[2]].function_id = id}

\* the events of kind `kind` in the record of the last call, in order
EventsOf(op, kind) == SelectSeq(op.events, LAMBDA ev : ev.e = kind)

\* the first position of an event of kind `kind` in the record (0: none)
PositionOf(op, kind) ==
    LET at == {i \in 1..Len(op.events) : op.events[i].e = kind}
    IN IF at = {} THEN 0 ELSE CHOOSE i \in at : \A j \in at : i <= j

\* C1 as stated: once the context is disposed, every function id that was
\* passed to a register call has been dropped exactly once.
C1_Original ==
    ctx = "disposed" => \A id \in passedIds : dropCount[id] = 1

\* C1 (amended): every register call that returned success is matched by
\* exactly one drop of its id: at any time the drops of an id plus the
\* registry entries that still hold it equal the successful registrations of
\* it, and after disposal the drops alone do; the id of a failed call is not
\* dropped.
C1_OneDropPerRegistration ==
    /\ \A id \in FunctionIds :
          dropCount[id] + Cardinality(EntriesOf(id)) = okRegs[id]
    /\ ctx = "disposed" => native_callbacks = {}
    /\ \A id \in FunctionIds : okRegs[id] > 0 => id \in passedIds

\* C1 witness: a disposed context that had one id registered twice with
\* success (two drops) and another id passed only to failed calls (no drop).
C1_Witness ==
    /\ ctx = "disposed"
    /\ \E id \in passedIds : okRegs[id] = 2 /\ dropCount[id] = 2
    /\ \E id \in passedIds : okRegs[id] = 0 /\ dropCount[id] = 0

\* a step of shim_dispose_context
DisposeStep == ctx = "live" /\ ctx' = "disposed"

\* C5 as stated: disposing a context with N registered callbacks issues N
\* drops, each with a distinct id, and empties the registry.
C5_Original ==
    [][DisposeStep =>
          LET drops == EventsOf(lastOp', "drop")
          IN /\ Len(drops) = Cardinality(native_callbacks)
             /\ \A i, j \in 1..Len(drops) : drops[i].id = drops[j].id => i = j
             /\ native_callbacks' = {}]_vars

\* C5 (amended): disposing a context with N registry entries issues exactly
\* N drops, one for each entry and with that entry's id (so the ids are
\* distinct when the registered ids are), and empties the registry; an id
\* that was replaced earlier is dropped again only for an entry that still
\* holds it.
C5_DisposeDropsEachEntry ==
    [][DisposeStep =>
          LET drops == EventsOf(lastOp', "drop")
          IN /\ Len(drops) = Cardinality(native_callbacks)
             /\ \A e \in native_callbacks :
                   Cardinality({i \in 1..Len(drops) :
                                   /\ drops[i].name = e[1]
                                   /\ drops[i].id = data[e[2]].function_id}) = 1
             /\ \A id \in FunctionIds :
                   dropCount'[id] = dropCount[id] + Cardinality(EntriesOf(id))
             /\ native_callbacks' = {}]_vars

\* C5 witness: a context with two entries, one of them registered after a
\* replacement at its path, was disposed with two drops.
C5_Witness ==
    /\ lastOp.op = "dispose_context"
    /\ Len(EventsOf(lastOp, "drop")) = 2
    /\ replaced # {}

\* a step of shim_context_register_host_function that returns 1 for a path
\* that has an entry in the registry
ReRegisterStep ==
    /\ nregs' = nregs + 1
    /\ lastOp'.status = 1
    /\ RegistryFind(native_callbacks, lastOp'.name) # {}

\* C6 as stated: a registration at a path that holds a callback issues one
\* drop, for the old id, before the new function is installed at the path
\* and before the registry records the new id.
C6_Original ==
    [][ReRegisterStep =>
          /\ Len(EventsOf(lastOp', "drop")) = 1
          /\ PositionOf(lastOp', "drop") < PositionOf(lastOp', "install")
          /\ PositionOf(lastOp', "drop") < PositionOf(lastOp', "record")]_vars

\* C6 (amended): a registration at a path that holds a callback issues
\* exactly one drop, for the old id, after the new function is installed at
\* the path and before the registry erases the old entry and records the
\* new id.
C6_DropBeforeRecord ==
    [][ReRegisterStep =>
          LET drops == EventsOf(lastOp', "drop")
              old == CHOOSE e \in RegistryFind(native_callbacks, lastOp'.name) : TRUE
          IN /\ Len(drops) = 1
             /\ drops[1].id = data[old[2]].function_id
             /\ dropCount'[drops[1].id] = dropCount[drops[1].id] + 1
             /\ PositionOf(lastOp', "install") < PositionOf(lastOp', "drop")
             /\ PositionOf(lastOp', "drop") < PositionOf(lastOp', "erase")
             /\ PositionOf(lastOp', "erase") < PositionOf(lastOp', "record")]_vars

\* C6 witness: a registration of id 8 at "f" has just replaced id 7 there.
C6_Witness ==
    /\ lastOp.op = "register" /\ lastOp.status = 1
    /\ lastOp.name = <<"f">> /\ lastOp.id = 8
    /\ <<<<"f">>, 7>> \in replaced
    /\ Len(EventsOf(lastOp, "drop")) = 1

\* C7: an evaluation that calls through the path "f" invokes the host once,
\* with the id of the callback registered last at "f", and never with an id
\* that was replaced there (unless that id is the one registered last).
C7_CallInvokesCurrentId ==
    (lastOp.op = "eval" /\ lastOp.src = "f()") =>
        LET invokes == EventsOf(lastOp, "invoke")
        IN /\ Len(invokes) <= 1
           /\ \A i \in 1..Len(invokes) :
                 /\ \E e \in RegistryFind(native_callbacks, <<"f">>) :
                       data[e[2]].live /\ data[e[2]].function_id = invokes[i].id
                 /\ ns[<<<<"f">>>>] =
                       FunctionValue((CHOOSE e \in RegistryFind(native_callbacks, <<"f">>) : TRUE)[2])

\* C7 witness: id 7 was replaced by id 8 at "f", and a call through "f"
\* invoked id 8.
C7_Witness ==
    /\ lastOp.op = "eval" /\ lastOp.src = "f()"
    /\ <<<<"f">>, 7>> \in replaced
    /\ <<<<"f">>, 8>> \notin replaced
    /\ Len(EventsOf(lastOp, "invoke")) = 1
    /\ EventsOf(lastOp, "invoke")[1].id = 8

\* C8: every path has at most one entry in the registry, and the entry's
\* callback data is alive and was created for that path.
C8_OneEntryPerPath ==
    /\ \A name \in RegisterNames : Cardinality(RegistryFind(native_callbacks, name)) <= 1
    /\ \A e \in native_callbacks :
          e[2] \in DOMAIN data /\ data[e[2]].live /\ data[e[2]].name = e[1]

\* C8 witness: two paths are registered, one of them after a replacement.
C8_Witness ==
    /\ Cardinality(native_callbacks) = 2
    /\ \E e \in native_callbacks : \E id \in FunctionIds : <<e[1], id>> \in replaced

(***************************************************************************)
(* Claims about the script cache (checked under SpecCache)                 *)
(***************************************************************************)
\* C4 as stated: the cache holds no key longer than the cacheable limit.
C4_Original ==
    \A source \in cache : strlen(source) <= kMaxCacheableSourceLength

\* C9 as stated: an eval of a source within the limit that was evaluated
\* before on the context finds it in the cache and does not compile.
C9_Original ==
    (/\ lastOp.op = "eval"
     /\ lastOp.prior
     /\ strlen(lastOp.src) <= kMaxCacheableSourceLength)
        => lastOp.hit /\ ~lastOp.compiled

\* C9 (amended): an eval of a source within the limit that compiles, and that
\* was evaluated before on the context, finds it in the cache and does not
\* compile; a source that does not compile is compiled again by every eval.
C9_SecondEvalHits ==
    /\ (/\ lastOp.op = "eval"
        /\ lastOp.prior
        /\ strlen(lastOp.src) <= kMaxCacheableSourceLength
        /\ Compiles(lastOp.src))
           => lastOp.hit /\ ~lastOp.compiled /\ PositionOf(lastOp, "compile") = 0
    /\ (lastOp.op = "eval" /\ ~Compiles(lastOp.src))
           => ~lastOp.hit /\ lastOp.compiled /\ lastOp.status = 0
    /\ ctx = "live" =>
          \A source \in evaled :
              (Compiles(source) /\ strlen(source) <= kMaxCacheableSourceLength)
                  => source \in cache

\* C9 witness: the second eval of the source of exactly the limit hit the
\* cache.
C9_Witness ==
    /\ lastOp.op = "eval" /\ lastOp.src = "limit"
    /\ lastOp.prior /\ lastOp.hit /\ ~lastOp.compiled
    /\ "limit" \notin ranOk

\* C10 as stated: after a script ran with success against the context, the
\* cache holds an entry under the script's source.
C10_Original ==
    ctx = "live" => \A key \in ranOk : key \in cache

\* C10 (amended): after a script with a non-empty source ran with success
\* against the context, the cache holds an entry under that source, and a
\* later eval of the same text hits the cache and does not compile; a script
\* with the empty source is not inserted by the run.
C10_RunInsertsNonEmptyKey ==
    /\ ctx = "live" => \A key \in ranOk : key # "" => key \in cache
    /\ (lastOp.op = "eval" /\ lastOp.src \in ranOk /\ lastOp.src # "")
           => lastOp.hit /\ ~lastOp.compiled
    /\ (lastOp.op = "script_run" /\ lastOp.status = 1)
           => ((PositionOf(lastOp, "cache_insert") # 0) <=> (lastOp.src # ""))
    /\ (lastOp.op = "script_run" /\ lastOp.status = 0)
           => PositionOf(lastOp, "cache_insert") = 0

\* C10 witness: the first eval of a text hit the cache because a script of
\* the same text had run with success.
C10_Witness ==
    /\ lastOp.op = "eval" /\ lastOp.src \in ranOk /\ lastOp.src # ""
    /\ ~lastOp.prior /\ lastOp.hit

(***************************************************************************)
(* Claims about isolates and handles (checked under SpecIsolate)           *)
(***************************************************************************)
\* a step of shim_script_run, called with valid handles, for a script that
\* was compiled on another isolate than the context's
MismatchRunStep ==
    /\ lastOp'.op = "script_run" /\ lastOp'.handle = "valid"
    /\ scripts[lastOp'.id].isolate # ContextIsolate

\* C11: shim_script_run with a script and a context of different isolates
\* returns 0 with the isolate-mismatch error string, binds and runs nothing,
\* leaves the result slot null and leaves the context's cache (and its
\* namespace) as they were.
C11_MismatchRejected ==
    [][MismatchRunStep =>
          /\ lastOp'.status = 0
          /\ lastOp'.error = "script and context belong to different isolates"
          /\ lastOp'.result = Null
          /\ lastOp'.events = <<>>
          /\ cache' = cache /\ ranOk' = ranOk /\ ns' = ns]_vars

\* C11 witness: a script compiled on the other isolate was run against the
\* context and rejected; its source is not in the cache.
C11_Witness ==
    /\ lastOp.op = "script_run" /\ lastOp.handle = "valid"
    /\ scripts[lastOp.id].isolate # ContextIsolate
    /\ lastOp.status = 0
    /\ scripts[lastOp.id].cache_key \notin cache

(***************************************************************************)
(* Claims about script disposal (checked under SpecCache)                  *)
(***************************************************************************)
\* the script handles of source `key` that were disposed
DisposedScripts(key) ==
    {h \in DOMAIN scripts : scripts[h].cache_key = key /\ ~scripts[h].live}

C14_Original ==
    lastOp.handle # "valid" =>
        /\ lastOp.status = 0
        /\ lastOp.error = InvalidHandleError(lastOp.op)
        /\ lastOp.events = <<>>
        /\ ~lastOp.released

(***************************************************************************)
(* Claims about dotted paths (checked under SpecPath)                      *)
(***************************************************************************)
\* the segments of a dotted path that has no empty segment
RECURSIVE Segments(_, _)
Segments(path, start) ==
    LET dot == FindDot(path, start)
    IN IF dot = 0 THEN <<SubSeq(path, start, Len(path))>>
       ELSE <<SubSeq(path, start, dot - 1)>> \o Segments(path, dot + 1)

\* the location a path names, and the locations of its intermediate segments
LocationOf(path) == Segments(path, 1)

Intermediates(path) ==
    {SubSeq(LocationOf(path), 1, k) : k \in 1..(Len(LocationOf(path)) - 1)}

\* a step of shim_context_set_global_string / _number
SetGlobalStep ==
    /\ nsets' = nsets + 1
    /\ lastOp'.op \in {"set_global_string", "set_global_number"}

\* C15 as stated: a set_global whose path has an intermediate segment that
\* holds a non-object value fails with the path-conflict error and leaves
\* the namespace unmodified.
C15_Original ==
    [][(/\ SetGlobalStep
        /\ \E l \in Intermediates(lastOp'.name) :
              l \in DOMAIN ns /\ ~Locked(ns, l) /\ ~IsObject(ns[l])) =>
          /\ lastOp'.status = 0
          /\ lastOp'.error = "property path conflicts with existing non-object value"
          /\ ns' = ns]_vars

\* C15 (amended): a set_global whose path has an intermediate segment that
\* holds a string or a number (a non-object value that is neither null nor
\* undefined) fails with the path-conflict error and leaves the namespace
\* unmodified; an intermediate segment that holds null is replaced by a
\* fresh object and the walk goes on.
C15_ConflictLeavesNamespace ==
    [][/\ (/\ SetGlobalStep
           /\ \E l \in Intermediates(lastOp'.name) :
                 l \in DOMAIN ns /\ ns[l].kind \in {"string", "number"}) =>
             /\ lastOp'.status = 0
             /\ lastOp'.error = "property path conflicts with existing non-object value"
             /\ lastOp'.events = <<>>
             /\ ns' = ns
       /\ (/\ SetGlobalStep
           /\ \E l \in Intermediates(lastOp'.name) :
                 l \in DOMAIN ns /\ ns[l].kind = "null") =>
             /\ lastOp'.status = 1
             /\ \A l \in Intermediates(lastOp'.name) : IsObject(ns'[l])]_vars

\* C15 witness: "a.b" holds a string and a set_global at "a.b.c" has just
\* failed with the path-conflict error.
C15_Witness ==
    /\ lastOp.op \in {"set_global_string", "set_global_number"}
    /\ lastOp.name = <<"a", ".", "b", ".", "c">>
    /\ lastOp.status = 0
    /\ lastOp.error = "property path conflicts with existing non-object value"
    /\ <<<<"a">>, <<"b">>>> \in DOMAIN ns
    /\ ns[<<<<"a">>, <<"b">>>>].kind = "string"

\* C16: a set_global that succeeds leaves an object at every intermediate
\* segment of its path and the given value at the final segment: an
\* intermediate segment that held an object keeps that object (and what was
\* reached through it), one that was absent holds a fresh empty object; on
\* a namespace where the first segment is absent the new locations are
\* exactly the k-1 prefixes and the final segment; nothing else changes.
C16_CreatesIntermediates ==
    [][(SetGlobalStep /\ lastOp'.status = 1) =>
          LET loc == LocationOf(lastOp'.name)
              mids == Intermediates(lastOp'.name)
          IN /\ loc \in DOMAIN ns' /\ ns'[loc] = lastOp'.value
             /\ \A l \in mids :
                   /\ l \in DOMAIN ns'
                   /\ IF l \in DOMAIN ns /\ IsObject(ns[l])
                      THEN ns'[l] = ns[l]
                      ELSE ns'[l] = ObjectValue
             /\ \A l \in DOMAIN ns :
                   (l # loc /\ ~Below(loc, l) /\ l \notin mids) =>
                       (l \in DOMAIN ns' /\ ns'[l] = ns[l])
             /\ (<<loc[1]>> \notin DOMAIN ns) =>
                   DOMAIN ns' = DOMAIN ns \cup mids \cup {loc}]_vars

\* C16 witness: "a.d" was set first; a set_global at "a.b.c" then reused the
\* object at "a" (a.d is still there), created a fresh object at "a.b" and
\* set "a.b.c".
C16_Witness ==
    /\ lastOp.op = "set_global_number" /\ lastOp.status = 1
    /\ lastOp.name = <<"a", ".", "b", ".", "c">>
    /\ <<<<"a">>, <<"d">>>> \in DOMAIN ns
    /\ ns[<<<<"a">>>>] = ObjectValue
    /\ ns[<<<<"a">>, <<"b">>>>] = ObjectValue
    /\ ns[<<<<"a">>, <<"b">>, <<"c">>>>] = NumberValue(42)

(***************************************************************************)
(* Claims about calls (checked under SpecCall)                             *)
(***************************************************************************)
\* C17: shim_context_call_function with a name that is no property of the
\* global object, or that is bound to a value that is not a function,
\* returns 0 with the error string "global function not found", leaves the
\* result slot null, and calls and invokes nothing.
C17_MissingFunctionFails ==
    (/\ lastOp.op = "call_function" /\ lastOp.handle = "valid"
     /\ (<<lastOp.name>> \notin DOMAIN ns \/ ~IsFunction(ns[<<lastOp.name>>])))
        => /\ lastOp.status = 0
           /\ lastOp.error = "global function not found"
           /\ lastOp.result = Null
           /\ lastOp.events = <<>>
           /\ lastOp.handler = "none"

\* C17 witness: forty_two holds a number and a call of it by name has just
\* failed.
C17_Witness ==
    /\ lastOp.op = "call_function" /\ lastOp.name = FortyTwoName
    /\ <<FortyTwoName>> \in DOMAIN ns /\ ns[<<FortyTwoName>>].kind = "number"
    /\ lastOp.status = 0 /\ lastOp.error = "global function not found"

\* the registry entry of the path "double"
DoubleEntry == RegistryFind(native_callbacks, DoubleName)

\* C18: when script code calls a registered host function, the host handler
\* is invoked exactly once, with the id registered at the path, and the
\* call's outcome follows what the handler returned: status 0 makes the
\* script observe a thrown exception whose text is the handler's message (the
\* generic message when it gave none); status 1 with a result string makes
\* the call return that string; status 1 without a result makes it return
\* undefined.
C18_CallFollowsHandler ==
    (/\ lastOp.op = "eval" /\ lastOp.src = "double(String(forty_two))"
     /\ <<DoubleName>> \in DOMAIN ns /\ IsFunction(ns[<<DoubleName>>])
     /\ <<FortyTwoName>> \in DOMAIN ns)
        => LET invokes == EventsOf(lastOp, "invoke")
               r == pacm_v8__host_function_invoke(lastOp.handler, lastOp.args)
           IN /\ Len(invokes) = 1
              /\ \E e \in DoubleEntry : data[e[2]].function_id = invokes[1].id
              /\ lastOp.handler \in HandlerOutcomes
              /\ r.status = 0 =>
                    /\ lastOp.status = 0 /\ lastOp.result = Null
                    /\ lastOp.exc.pending
                    /\ lastOp.exc.text = (IF r.error # Null THEN r.error
                                          ELSE "host function invocation failed")
              /\ (r.status = 1 /\ r.result # Null) =>
                    lastOp.status = 1 /\ lastOp.result = r.result
              /\ (r.status = 1 /\ r.result = Null) =>
                    lastOp.status = 1 /\ lastOp.result = "undefined"

\* C18 witness: the script called the function registered with id 8, whose
\* handler reported failure without a message, and the evaluation failed
\* with the generic message.
C18_Witness ==
    /\ lastOp.op = "eval" /\ lastOp.src = "double(String(forty_two))"
    /\ lastOp.handler = "error_null"
    /\ EventsOf(lastOp, "invoke") = <<Event("invoke", <<>>, 8)>>
    /\ lastOp.status = 0
    /\ lastOp.exc.text = "host function invocation failed"

\* C20: end to end, with the global forty_two set to the number 42 and a
\* host function registered at double with id 7 whose handler doubles the
\* number its argument spells, an eval of "double(String(forty_two))"
\* returns 1, invokes handler 7 exactly once with the single argument "42",
\* and gives the result string "84".
C20_EndToEnd ==
    (/\ lastOp.op = "eval" /\ lastOp.src = "double(String(forty_two))"
     /\ <<FortyTwoName>> \in DOMAIN ns /\ ns[<<FortyTwoName>>] = NumberValue(42)
     /\ \E e \in DoubleEntry :
           /\ data[e[2]].function_id = 7
           /\ <<DoubleName>> \in DOMAIN ns /\ ns[<<DoubleName>>] = FunctionValue(e[2])
     /\ lastOp.handler \in {"doubled", "none"})
        => /\ lastOp.handler = "doubled"
           /\ lastOp.status = 1
           /\ lastOp.error = Null
           /\ EventsOf(lastOp, "invoke") = <<Event("invoke", <<>>, 7)>>
           /\ lastOp.args = <<"42">>
           /\ lastOp.result = "84"

\* C20 witness: the scenario was played (one number set, one function
\* registered, one eval) and gave "84".
C20_Witness ==
    /\ lastOp.op = "eval" /\ lastOp.src = "double(String(forty_two))"
    /\ nsets = 1 /\ nregs = 1
    /\ ns[<<FortyTwoName>>] = NumberValue(42)
    /\ \E e \in DoubleEntry : data[e[2]].function_id = 7
    /\ lastOp.handler = "doubled"
    /\ lastOp.args = <<"42">>
    /\ lastOp.status = 1 /\ lastOp.result = "84"

\* the evaluations of a text whose run throws
ThrowingEval ==
    lastOp.op = "eval" /\ lastOp.src \in {"throw", "throw_nomsg", "throw_obj"}

\* the first line of the error of an exception: its own string form, or the
\* text that stands for an exception that has none
FirstLine(exc) == IF exc.text # Null THEN exc.text ELSE "unknown V8 exception"

\* an assignment to a global that the engine did not carry out
EngineSetFailed ==
    /\ lastOp.op \in {"set_global_string", "set_global_number", "register"}
    /\ lastOp.name = <<"a">> /\ Locked(ns, <<<<"a">>>>)
    /\ lastOp.status = 0

\* C19: an eval of a script that throws returns 0 with a non-empty error
\* string that starts with the exception's own string form and, when the
\* engine has a diagnostic message, continues on a second line with that
\* message; an engine operation that fails with no exception pending gives
\* the error string "V8 execution failed".
C19_ExceptionText ==
    /\ ThrowingEval =>
          /\ lastOp.status = 0 /\ lastOp.result = Null
          /\ lastOp.exc.pending
          /\ lastOp.error # Null /\ lastOp.error # ""
          /\ \E rest \in {""} \cup {"\n" \o d : d \in {lastOp.exc.diag} \ {Null}} :
                lastOp.error = FirstLine(lastOp.exc) \o rest
          /\ lastOp.exc.diag # Null =>
                lastOp.error = FirstLine(lastOp.exc) \o "\n" \o lastOp.exc.diag
          /\ lastOp.exc.diag = Null => lastOp.error = FirstLine(lastOp.exc)
    /\ (EngineSetFailed /\ ~lastOp.exc.pending) => lastOp.error = "V8 execution failed"

\* C19 witness: an eval of the text that throws an Error failed with the
\* two-line error string.
C19_Witness ==
    /\ ThrowingEval /\ lastOp.src = "throw"
    /\ lastOp.status = 0
    /\ lastOp.error = "Error: thrown\nUncaught Error: thrown"

\* C19 witness of the second case: an assignment failed with nothing pending.
C19_WitnessNothingPending ==
    EngineSetFailed /\ ~lastOp.exc.pending /\ lastOp.error = "V8 execution failed"

\* the operations that report failure through a status and an error slot
FallibleOps ==
    {"eval", "set_global_string", "set_global_number", "register", "call_function",
     "compile_script", "script_run"}

\* C13: every fallible operation (eval, set_global_string, set_global_number,
\* register_host_function, call_function, compile_script, run_script) that
\* returns failure has put an error string in the caller's error slot and
\* left the result slot null; one that returns success has left the error
\* slot null.
C13_ErrorSlot ==
    lastOp.op \in FallibleOps =>
        /\ lastOp.status \in {0, 1}
        /\ lastOp.status = 0 => (lastOp.error # Null /\ lastOp.result = Null)
        /\ lastOp.status = 1 => lastOp.error = Null

\* C13 witness: a run of a compiled script that throws failed with the
\* error slot filled and no result.
C13_Witness ==
    /\ lastOp.op = "script_run" /\ lastOp.src = "throw"
    /\ lastOp.status = 0
    /\ lastOp.error = "Error: thrown\nUncaught Error: thrown"
    /\ lastOp.result = Null

(***************************************************************************)
(* Claims about disposal order, callback metadata and failed calls         *)
(***************************************************************************)
\* the positions of the events of kind `kind` in the record
PositionsOf(op, kind) == {i \in 1..Len(op.events) : op.events[i].e = kind}

\* C21: shim_dispose_context releases every cached script and empties the
\* cache, then issues the drop notifications and empties the registry, and
\* only after both does it release the handle of the global namespace and
\* free the wrapper.
C21_DisposeOrder ==
    [][DisposeStep =>
          LET op == lastOp'
              at(kind) == PositionOf(op, kind)
          IN /\ at("cache_reset") = 1 /\ op.events[1].id = Cardinality(cache)
             /\ at("cache_clear") = 2
             /\ \A i \in PositionsOf(op, "drop") : 2 < i /\ i < at("registry_clear")
             /\ Cardinality(PositionsOf(op, "drop")) = Cardinality(native_callbacks)
             /\ at("registry_clear") = 3 + Cardinality(native_callbacks)
             /\ at("context_reset") = at("registry_clear") + 1
             /\ at("delete") = at("context_reset") + 1
             /\ Len(op.events) = at("delete")
             /\ cache' = {} /\ native_callbacks' = {}]_vars

\* C21 witness: a context with a cached script and a registered callback
\* was disposed.
C21_Witness ==
    /\ lastOp.op = "dispose_context"
    /\ lastOp.events[1] = Event("cache_reset", <<>>, 1)
    /\ Len(EventsOf(lastOp, "drop")) >= 1
    /\ ctx = "disposed" /\ cache = {} /\ native_callbacks = {}

\* the last call ran the trampoline of a host function
TrampolineRan == EventsOf(lastOp, "invoke") # <<>>

\* C22 as stated: whenever the trampoline of a registered host function
\* runs, the NativeCallbackData it reads is still owned by the registry and
\* was not released, also when a script kept a reference to a function
\* object of an earlier registration at a path that was registered again.
C22_Original ==
    TrampolineRan =>
        /\ EventsOf(lastOp, "read_released") = <<>>
        /\ \A i \in 1..Len(EventsOf(lastOp, "read_metadata")) :
              \E e \in native_callbacks : e[2] = EventsOf(lastOp, "read_metadata")[i].id

\* a step of shim_context_register_host_function
RegisterStep == nregs' = nregs + 1 /\ lastOp'.op = "register"

\* the errors of ensure_property_path
PathErrors ==
    {"property name was empty", "property path contained an empty segment",
     "property path conflicts with existing non-object value"}

\* C23 as stated: a set_global_string, set_global_number or
\* register_host_function call that returns 0 for a path error (empty path,
\* empty segment, trailing dot, non-object value on the path) leaves the
\* global namespace unmodified: no intermediate object that did not exist
\* before the call exists after it.
C23_Original ==
    [][((SetGlobalStep \/ RegisterStep)
            /\ lastOp'.status = 0 /\ lastOp'.error \in PathErrors) =>
          ns' = ns]_vars

\* C24: a register_host_function call that returns 0 leaves the callback
\* registry unchanged and issues no drop notification: an entry at the path
\* stays registered with its old id, and the id passed to the failed call
\* is neither recorded nor dropped.
C24_FailedRegisterKeepsRegistry ==
    [][(RegisterStep /\ lastOp'.status = 0) =>
          /\ native_callbacks' = native_callbacks
          /\ \A e \in native_callbacks : data'[e[2]] = data[e[2]]
          /\ dropCount' = dropCount
          /\ okRegs' = okRegs
          /\ EventsOf(lastOp', "drop") = <<>>
          /\ EventsOf(lastOp', "record") = <<>>]_vars

\* C24 witness: a registration at "a.f" failed (the global a holds a
\* string) while the registry holds an entry for "a.f" with another id.
C24_Witness ==
    /\ lastOp.op = "register" /\ lastOp.status = 0
    /\ lastOp.name = <<"a", ".", "f">>
    /\ \E e \in RegistryFind(native_callbacks, lastOp.name) :
          data[e[2]].live /\ data[e[2]].function_id # lastOp.id
    /\ dropCount[lastOp.id] = 0 /\ okRegs[lastOp.id] = 0

\* C25 as stated: no drop notification is issued for a function id that is
\* still recorded as active in the registry after the call completes.
C25_Original ==
    lastOp.op \in {"register", "dispose_context"} =>
        \A i \in 1..Len(EventsOf(lastOp, "drop")) :
            EntriesOf(EventsOf(lastOp, "drop")[i].id) = {}

\* C25 (amended): a successful registration at a path that has an entry
\* issues one drop, for the id of that entry, whatever the registry holds
\* after the call: the dropped id is still recorded as active afterwards
\* exactly when the call registered that same id again or another path
\* holds an entry with it; a registration at a path without an entry drops
\* nothing.
C25_DropFollowsEntry ==
    [][/\ ReRegisterStep =>
            LET old == CHOOSE e \in RegistryFind(native_callbacks, lastOp'.name) : TRUE
                oldid == data[old[2]].function_id
            IN /\ EventsOf(lastOp', "drop") = <<Event("drop", lastOp'.name, oldid)>>
               /\ ({e \in native_callbacks' : data'[e[2]].function_id = oldid} # {})
                     <=> \/ lastOp'.id = oldid
                         \/ \E e \in native_callbacks :
                               e[1] # lastOp'.name /\ data[e[2]].function_id = oldid
       /\ (RegisterStep /\ lastOp'.status = 1
              /\ RegistryFind(native_callbacks, lastOp'.name) = {}) =>
            EventsOf(lastOp', "drop") = <<>>]_vars

\* C25 witness: id 7 was registered at "f" again while "f" already held 7:
\* the call dropped 7 and the entry at "f" records 7.
C25_Witness ==
    /\ lastOp.op = "register" /\ lastOp.status = 1
    /\ lastOp.name = <<"f">> /\ lastOp.id = 7
    /\ EventsOf(lastOp, "drop") = <<Event("drop", <<"f">>, 7)>>
    /\ \E e \in RegistryFind(native_callbacks, <<"f">>) :
          data[e[2]].live /\ data[e[2]].function_id = 7

(***************************************************************************)
(* Claims about the moment of cache insertion (checked under SpecCache)    *)
(***************************************************************************)
\* a step of shim_context_eval / of shim_script_run that reached the run
EvalStep == lastOp'.op = "eval" /\ evaled' = evaled \cup {lastOp'.src}

ScriptRunStep == lastOp'.op = "script_run" /\ lastOp'.handle = "valid"

\* C26: on a cache miss shim_context_eval inserts the compiled unit (for a
\* source within the length limit) once compilation succeeded and before
\* it runs the unit, so the entry stays cached when the run throws; a
\* compile failure inserts nothing; shim_script_run inserts into the cache
\* only after a successful run and inserts nothing when the run throws.
C26_InsertionMoment ==
    [][/\ (EvalStep /\ ~lastOp'.hit) =>
            LET src == lastOp'.src
            IN /\ ~Compiles(src) =>
                    /\ lastOp'.status = 0 /\ cache' = cache
                    /\ EventsOf(lastOp', "cache_insert") = <<>>
                    /\ EventsOf(lastOp', "run") = <<>>
               /\ (Compiles(src) /\ strlen(src) <= kMaxCacheableSourceLength) =>
                    /\ cache' = cache \cup {src}
                    /\ PositionOf(lastOp', "compile") < PositionOf(lastOp', "cache_insert")
                    /\ PositionOf(lastOp', "cache_insert") < PositionOf(lastOp', "run")
               /\ (Compiles(src) /\ strlen(src) > kMaxCacheableSourceLength) =>
                    cache' = cache
       /\ ScriptRunStep =>
            /\ lastOp'.status = 0 =>
                  (cache' = cache /\ EventsOf(lastOp', "cache_insert") = <<>>)
            /\ (lastOp'.status = 1 /\ lastOp'.src # "") =>
                  /\ cache' = cache \cup {lastOp'.src}
                  /\ 0 < PositionOf(lastOp', "run")
                  /\ PositionOf(lastOp', "run") < PositionOf(lastOp', "cache_insert")]_vars

\* C26 witness: the first eval of the text that throws failed and the text
\* is in the cache.
C26_Witness ==
    /\ lastOp.op = "eval" /\ lastOp.src = "throw"
    /\ ~lastOp.hit /\ lastOp.status = 0
    /\ "throw" \in cache
    /\ "syntax" \in evaled /\ "syntax" \notin cache

(***************************************************************************)
(* Claims about overwritten functions (checked under SpecOverwrite)        *)
(***************************************************************************)
\* a step that assigns to a global: a successful set_global, or a
\* successful eval of the text that assigns null to a
OverwriteStep ==
    \/ SetGlobalStep /\ lastOp'.status = 1
    \/ EvalStep /\ lastOp'.src = "a=null" /\ lastOp'.status = 1

\* the registry entries whose function object is no longer in the namespace
Overwritten(reg, heap, g) == {e \in reg : FunctionValue(e[2]) \notin {g[l] : l \in DOMAIN g}}

\* C27: overwriting a path that holds a registered host function, with
\* set_global or by an assignment in a script, leaves the callback registry
\* unchanged and issues no drop at that time; the entry stays registered
\* and its id is dropped exactly once later, by the re-registration of its
\* path or by the disposal of the context.
C27_OverwriteKeepsEntry ==
    [][/\ OverwriteStep =>
            /\ native_callbacks' = native_callbacks
            /\ data' = data
            /\ dropCount' = dropCount
            /\ EventsOf(lastOp', "drop") = <<>>
       /\ \A e \in native_callbacks \ native_callbacks' :
            /\ \/ lastOp'.op = "dispose_context"
               \/ lastOp'.op = "register" /\ lastOp'.status = 1 /\ lastOp'.name = e[1]
            /\ Cardinality({i \in 1..Len(lastOp'.events) :
                    lastOp'.events[i] = Event("drop", e[1], data[e[2]].function_id)}) = 1
       /\ \A id \in FunctionIds :
            dropCount'[id] = dropCount[id]
                + Cardinality({e \in native_callbacks \ native_callbacks' :
                                  data[e[2]].function_id = id})
       /\ ctx' = "disposed" => native_callbacks' = {}]_vars

\* C27 witness: a function is registered at "a", the global a was then set
\* to a string, and the entry is still in the registry with nothing
\* dropped.
C27_Witness ==
    /\ lastOp.op = "set_global_string" /\ lastOp.status = 1 /\ lastOp.name = <<"a">>
    /\ ns[<<<<"a">>>>] = StringValue("x")
    /\ \E e \in RegistryFind(native_callbacks, <<"a">>) :
          data[e[2]].live /\ e \in Overwritten(native_callbacks, data, ns)
    /\ \A id \in FunctionIds : dropCount[id] = 0

(***************************************************************************)
(* Claims about the strings of a host call (checked under SpecStrings)     *)
(***************************************************************************)
\* how many events of the last call are the event `ev`, and the positions
\* of those events
CountOf(ev) == Cardinality({i \in 1..Len(lastOp.events) : lastOp.events[i] = ev})

AtOf(ev) == {i \in 1..Len(lastOp.events) : lastOp.events[i] = ev}

\* what the handler of the last call left in its out slots
HandlerReturned == pacm_v8__host_function_invoke(lastOp.handler, lastOp.args)

\* the handler outcomes the claim lists: failure with or without message,
\* success with or without result, success with a stray error string
ListedOutcomes == {"error", "error_null", "result", "no_result", "doubled", "stray_error"}

\* C29: for every trampoline invocation whose handler fails with or without
\* a message, succeeds with or without a result, or succeeds and leaves a
\* stray error string, every argument string the trampoline allocated is
\* released exactly once with shim_free_string after the handler returned,
\* and every result or error string the handler returned is released
\* exactly once with pacm_v8__string_free; nothing is leaked and nothing is
\* released twice.
C29_StringsReleasedOnce ==
    (TrampolineRan /\ lastOp.handler \in ListedOutcomes) =>
        LET invoked == PositionOf(lastOp, "invoke")
        IN /\ Len(EventsOf(lastOp, "invoke")) = 1
           /\ Len(EventsOf(lastOp, "copy_string")) = Len(lastOp.args)
           /\ Len(EventsOf(lastOp, "shim_free_string")) = Len(lastOp.args)
           /\ \A i \in 1..Len(lastOp.args) :
                 /\ CountOf(Event("copy_string", <<>>, i)) = 1
                 /\ CountOf(Event("shim_free_string", <<>>, i)) = 1
                 /\ \A a \in AtOf(Event("copy_string", <<>>, i)) : a < invoked
                 /\ \A a \in AtOf(Event("shim_free_string", <<>>, i)) : invoked < a
           /\ \A slot \in {"result", "error"} :
                 LET free == Event("pacm_v8__string_free", <<slot>>, 0)
                 IN /\ CountOf(free) = IF HandlerReturned[slot] # Null THEN 1 ELSE 0
                    /\ \A a \in AtOf(free) : invoked < a
           /\ Len(EventsOf(lastOp, "pacm_v8__string_free"))
                 = Cardinality({slot \in {"result", "error"} : HandlerReturned[slot] # Null})

\* C29 witness: a call with two arguments to a handler that returned a
\* result and a stray error string: two argument strings and two host
\* strings were released.
C29_Witness ==
    /\ TrampolineRan /\ lastOp.handler = "stray_error"
    /\ Len(lastOp.args) = 2
    /\ Len(EventsOf(lastOp, "shim_free_string")) = 2
    /\ Len(EventsOf(lastOp, "pacm_v8__string_free")) = 2
    /\ lastOp.status = 1 /\ lastOp.result = "host result"

\* a handler that reports failure and leaves a result string as well: the
\* result string is not released
StrayResultLeaks ==
    (TrampolineRan /\ lastOp.handler = "stray_result") =>
        CountOf(Event("pacm_v8__string_free", <<"result">>, 0)) = 0

(***************************************************************************)
(* Claims about calls made from inside a handler (checked under            *)
(* SpecReentrant)                                                          *)
(***************************************************************************)
\* what the handler of the evaluation that returned last left in its slots
HandlerLeft == pacm_v8__host_function_invoke(pending.result.handler, pending.result.args)

\* C28: when a host handler, invoked through the trampoline during an eval
\* on a context, itself calls eval or register_host_function on that
\* context (its own path included), then after the handler returns the
\* trampoline and the outer eval complete without reading a released cache
\* entry or released callback metadata, and the outer eval returns what the
\* handler returned.
C28_ReentrantCallsAreSafe ==
    pending.done =>
        LET r == pending.result
        IN /\ EventsOf(r, "read_released") = <<>>
           /\ EventsOf(r, "invoke") = <<Event("invoke", <<>>, pending.id)>>
           /\ PositionOf(r, "read_metadata") < PositionOf(r, "invoke")
           /\ \A i \in 1..Len(r.events) :
                 r.events[i].e \in {"read_metadata", "read_cache"} =>
                     i < PositionOf(r, "invoke")
           /\ HandlerLeft.status = 1 =>
                 /\ r.status = 1 /\ r.error = Null
                 /\ r.result = IF HandlerLeft.result # Null THEN HandlerLeft.result
                                ELSE "undefined"
           /\ HandlerLeft.status = 0 =>
                 /\ r.status = 0 /\ r.result = Null
                 /\ r.exc.text = IF HandlerLeft.error # Null THEN HandlerLeft.error
                                  ELSE "host function invocation failed"

\* C28 witness: the handler of f registered f again (the metadata the
\* trampoline had read is released) and then evaluated a script, and the
\* outer eval returned the handler's result.
C28_Witness ==
    /\ pending.done /\ pending.released /\ pending.nested = "eval"
    /\ lastOp = pending.result
    /\ pending.result.handler = "result"
    /\ pending.result.status = 1 /\ pending.result.result = "host result"

=============================================================================
